---- MODULE Spec2Model ----
(***************************************************************************)
(* Usage governance of the Nthcreation API: the fixed-window limiters of   *)
(* middleware/security.ts (rateLimiter, aiRateLimiter, trackCost and the   *)
(* cleanup timer), the analytics aggregator of middleware/analytics.ts and *)
(* the middleware chain of index.ts that composes them.                    *)
(*                                                                         *)
(* Time is Date.now() in milliseconds.  Every handler runs to completion   *)
(* on the single event-loop thread, so each is one atomic action.          *)
(***************************************************************************)
EXTENDS Integers, Sequences, FiniteSets, TLC

\* ------------------------------------------------------------------ bounds
MaxAdvances == 3          \* clock advances explored in one run
MaxRollingAdvances == 2   \* the same, in the runs that keep the rolling ledger
MaxOverrun == 2           \* requests explored beyond a reached daily limit
MaxRequests == 2          \* requests received in a run of mixed traffic
MaxInFlight == 1          \* responses not yet finished at one time, mixed traffic
MaxAppAdvances == 1       \* clock advances explored in a run of mixed traffic
MaxBurst == 22            \* requests received in a run of one kind of request
MaxBurstAdvances == 2     \* clock advances explored in such a run
MaxLogged == 1002         \* requests logged in a run that fills the log buffer
MaxTicks == 800           \* timer and midnight instants in a run that fills the history
MaxDayLogs == 2           \* requests logged on the first day of such a run
MaxLateLogs == 1          \* requests logged once the history has overflowed
\* Steps of a flow and findings of an AI reply the engine is tried on.
MaxSteps == 4
MaxAIFindings == 2
MaxFlows == 2             \* flows stored in a run that creates flows
MaxFlowRequests == 3      \* requests received in such a run
MaxHandlers == 2          \* handlers of one limiter in progress at a time
MaxRuleSteps == 4         \* steps of a flow given to the rule engine alone
MaxOrderSteps == 4        \* steps of a flow whose steps are put in another order
MaxConcurrent == 2        \* responses in flight at one time in a run of the logging middleware
MaxReceived == 3          \* requests received in such a run
MaxInFlightAdvances == 2  \* clock advances explored in such a run
MaxCostRequests == 2      \* AI requests counted in a run of several clients
MaxOtherRequests == 2     \* requests per limiter of the second client in such a run
MaxGateAdvances == 5      \* AI windows waited for in a run of one client's AI requests
MaxOutcomeRequests == 23  \* requests received in a run that follows each request to its response
MaxStepAdvances == 2      \* clock advances explored in a run that follows handlers

\* ------------------------------------------------- constants of security.ts
RATE_LIMIT_WINDOW == 60 * 1000
MAX_REQUESTS_PER_MINUTE == 10
MAX_AI_REQUESTS_PER_HOUR == 20
AI_LIMIT_WINDOW == 60 * 60 * 1000
DAILY_AI_LIMIT == 100
DAILY_WINDOW == 24 * 60 * 60 * 1000
CLEANUP_INTERVAL == 5 * 60 * 1000

\* ------------------------------------------------- constants of analytics.ts
MAX_LOGS == 1000
HISTORY_DAYS == 30
HOURLY_INTERVAL == 60 * 60 * 1000
MS_PER_DAY == 24 * 60 * 60 * 1000

\* The process starts one minute before a midnight UTC.  Time is counted in ms
\* from an epoch 24 days after that midnight, so that the 32-bit integers of
\* the checker hold the five weeks the longest run lives through.
StartDay == -25
StartTime == (StartDay + 1) * MS_PER_DAY - 60 * 1000

Clients == {"ip1", "ip2"}
TestClient == "ip1"       \* the client of the runs that drive one limiter alone
CostKey == <<"global", "ai:daily">>

VARIABLES
    now,              \* Date.now()
    rateLimitStore,   \* Map<string, RateLimitEntry>: a function on the keys present
    costTracker,      \* Map<string, CostEntry>
    cleanupDue,       \* time at which the cleanup interval fires next
    mw,               \* the middleware the harness drives ("app": the whole chain)
    last,             \* observation of the request handled last
    twin,             \* side by side: what the cost governor did with that request
    uncleaned,        \* side by side: the same requests on a store no timer cleans
    seen,             \* per key: requests handled by the current entry
    allowed,          \* per key: requests the current entry let through
    raiser,           \* per key: outcome of the request that last raised the count
    rolling,          \* whether this run keeps the ledger `grants`
    grants,           \* per client key: instant |-> requests allowed at it, one window back
    advances,         \* clock advances so far
    requestLogs,      \* RequestLog[], oldest first
    currentDayStats,  \* DailyStats of the day being accumulated
    historicalStats,  \* DailyStats[] of the days closed, oldest first
    totalResponseTime,
    hourlyDue,        \* time at which the hourly checkAndResetDaily fires next
    pending,          \* logged requests whose response has not finished
    menu,             \* the kinds of request the clients send in this run
    arrivals,         \* requests received so far
    logged,           \* logRequest calls so far
    trace,            \* the stages the request received last went through
    report,           \* what the reporting query answered last has read
    aiEnabled,        \* AI_ENABLED: whether OPENAI_API_KEY is configured
    job,              \* the analysis the engine is working on
    flows,            \* Map<string, Flow>: the stored flows, by id
    running           \* per handler of a limiter followed statement by statement:
                      \* where it stands and what it has read

appVars == <<requestLogs, currentDayStats, historicalStats, totalResponseTime,
             hourlyDue, pending, menu, arrivals, logged, trace, report>>

engineVars == <<aiEnabled, job, flows, running>>

vars == <<now, rateLimitStore, costTracker, cleanupDue, mw, last, twin, uncleaned,
          seen, allowed, raiser, rolling, grants, advances, appVars, engineVars>>

\* ------------------------------------------------------------------ helpers
GeneralKey(clientId) == <<clientId, "general">>

\* An AI key without its class: the key of the general limiter.
AiKeyShared(clientId) == <<clientId, "general">>

AiKey(clientId) == <<clientId, "ai">>

\* Map.set(key, entry)
MapSet(m, key, entry) ==
    [k \in DOMAIN m \cup {key} |-> IF k = key THEN entry ELSE m[k]]

\* Map.delete for every key of ks
MapDelete(m, ks) == [k \in DOMAIN m \ ks |-> m[k]]

\* Math.ceil(ms / 1000) for ms >= 0
CeilSeconds(ms) == (ms + 999) \div 1000

\* `!entry || entry.resetTime < now`
NewWindowInclusive(m, key, t) ==
    IF key \notin DOMAIN m THEN TRUE ELSE m[key].resetTime <= t
NewWindow(m, key, t) ==
    IF key \notin DOMAIN m THEN TRUE ELSE m[key].resetTime < t

\* `entry.count >= maxRequests`
AtLimitOffByOne(count, cap) == count > cap
AtLimit(count, cap) == count >= cap

\* `Math.ceil((entry.resetTime - now) / 1000)`
RetryAfterFloor(entry, t) == (entry.resetTime - t) \div 1000
RetryAfter(entry, t) == CeilSeconds(entry.resetTime - t)

NoRetry == -1

\* ------------------------------------------------------ security.ts handlers
\* A limiter that, finding the window over, keeps counting in the stale entry.
LimiterStale(store, key, t, cap, window) ==
    IF key \notin DOMAIN store
    THEN [store |-> MapSet(store, key, [count |-> 1, resetTime |-> t + window]),
          ok |-> TRUE, retryAfter |-> NoRetry]
    ELSE IF store[key].resetTime >= t /\ AtLimit(store[key].count, cap)
    THEN [store |-> store, ok |-> FALSE, retryAfter |-> RetryAfter(store[key], t)]
    ELSE [store |-> MapSet(store, key, [store[key] EXCEPT !.count = @ + 1]),
          ok |-> TRUE, retryAfter |-> NoRetry]

\* The body shared by rateLimiter and aiRateLimiter: the handler's effect on the
\* store and its outcome (ok: next() was called; otherwise 429 with retryAfter).
Limiter(store, key, t, cap, window) ==
    IF NewWindow(store, key, t)
    THEN [store |-> MapSet(store, key, [count |-> 1, resetTime |-> t + window]),
          ok |-> TRUE, retryAfter |-> NoRetry]
    ELSE IF AtLimit(store[key].count, cap)
    THEN [store |-> store, ok |-> FALSE, retryAfter |-> RetryAfter(store[key], t)]
    ELSE [store |-> MapSet(store, key, [store[key] EXCEPT !.count = @ + 1]),
          ok |-> TRUE, retryAfter |-> NoRetry]

rateLimiter(store, clientId, t, maxRequests) ==
    Limiter(store, GeneralKey(clientId), t, maxRequests, RATE_LIMIT_WINDOW)

aiRateLimiter(store, clientId, t) ==
    Limiter(store, AiKey(clientId), t, MAX_AI_REQUESTS_PER_HOUR, AI_LIMIT_WINDOW)

\* `entry.count >= DAILY_AI_LIMIT * 0.8`
Warns(count, limit) == count * 10 >= limit * 8

\* trackCost with its limit and window as parameters: the count is raised
\* before it is compared with the limit.
CostStep(tracker, t, limit, window) ==
    IF NewWindow(tracker, CostKey, t)
    THEN [store |-> MapSet(tracker, CostKey, [count |-> 1, resetTime |-> t + window]),
          ok |-> TRUE, retryAfter |-> NoRetry, warned |-> FALSE]
    ELSE LET c == tracker[CostKey].count + 1
             raised == MapSet(tracker, CostKey, [tracker[CostKey] EXCEPT !.count = c])
         IN IF AtLimit(c, limit)
            THEN [store |-> raised, ok |-> FALSE, retryAfter |-> NoRetry,
                  warned |-> FALSE]
            ELSE [store |-> raised, ok |-> TRUE, retryAfter |-> NoRetry,
                  warned |-> Warns(c, limit)]

trackCost(tracker, t) == CostStep(tracker, t, DAILY_AI_LIMIT, DAILY_WINDOW)

\* A callback that also deletes the entry that expires at this very instant.
CleanupStoreInclusive(store, t) ==
    MapDelete(store, {k \in DOMAIN store : store[k].resetTime <= t})

\* The interval callback: delete every entry with resetTime < now.
CleanupStore(store, t) ==
    MapDelete(store, {k \in DOMAIN store : store[k].resetTime < t})

\* ------------------------------------------------------ analytics.ts handlers
\* `new Date().toISOString().split("T")[0]`: the UTC calendar day, as a day number.
DateOf(t) == t \div MS_PER_DAY

NoStatus == 0
NoDuration == -1

\* A mean kept as the fraction the code divides: totalResponseTime / totalRequests.
ZeroMean == [num |-> 0, den |-> 1]

FreshDay(date) ==
    [date |-> date, totalRequests |-> 0, aiRequests |-> 0, uniqueIPs |-> {},
     endpoints |-> <<>>, errors |-> 0, avgResponseTime |-> ZeroMean]

\* The analytics module's state as one value.
Analytics ==
    [logs |-> requestLogs, day |-> currentDayStats, hist |-> historicalStats,
     total |-> totalResponseTime]

\* A check that starts the new day with the clients of the old one.
checkAndResetDailyKeepsClients(a, t) ==
    IF a.day.date # DateOf(t)
    THEN LET pushed == Append(a.hist, a.day)
         IN [a EXCEPT !.hist = IF Len(pushed) > HISTORY_DAYS THEN Tail(pushed)
                                ELSE pushed,
                      !.day = [FreshDay(DateOf(t)) EXCEPT !.uniqueIPs = a.day.uniqueIPs],
                      !.total = 0]
    ELSE a

\* A check that never sees the day change.
checkAndResetDailyNever(a, t) == a

\* A check that starts the new day without archiving the old one.
checkAndResetDailyNoArchive(a, t) ==
    IF a.day.date # DateOf(t)
    THEN [a EXCEPT !.day = FreshDay(DateOf(t)), !.total = 0]
    ELSE a

checkAndResetDaily(a, t) ==
    IF a.day.date # DateOf(t)
    THEN LET pushed == Append(a.hist, a.day)
         IN [a EXCEPT !.hist = IF Len(pushed) > HISTORY_DAYS THEN Tail(pushed)
                                ELSE pushed,
                      !.day = FreshDay(DateOf(t)),
                      !.total = 0]
    ELSE a

\* A logRequest that never drops a log.
logRequestKeepAll(a, id, ip, path, useAI, t) ==
    LET b == checkAndResetDaily(a, t)
        log == [id |-> id, timestamp |-> t, ip |-> ip, endpoint |-> path,
                useAI |-> useAI, status |-> NoStatus, duration |-> NoDuration]
        hits == IF path \in DOMAIN b.day.endpoints THEN b.day.endpoints[path] ELSE 0
    IN [b EXCEPT !.logs = Append(b.logs, log),
                 !.day = [b.day EXCEPT
                            !.totalRequests = @ + 1,
                            !.aiRequests = IF useAI THEN @ + 1 ELSE @,
                            !.uniqueIPs = @ \cup {ip},
                            !.endpoints = MapSet(b.day.endpoints, path, hits + 1)]]

\* logRequest; id stands for the identity of the log object it returns.  The
\* method and user-agent fields of the log play no part and are left out.
logRequest(a, id, ip, path, useAI, t) ==
    LET b == checkAndResetDaily(a, t)
        log == [id |-> id, timestamp |-> t, ip |-> ip, endpoint |-> path,
                useAI |-> useAI, status |-> NoStatus, duration |-> NoDuration]
        pushed == Append(b.logs, log)
        hits == IF path \in DOMAIN b.day.endpoints THEN b.day.endpoints[path] ELSE 0
    IN [b EXCEPT !.logs = IF Len(pushed) > MAX_LOGS THEN Tail(pushed) ELSE pushed,
                 !.day = [b.day EXCEPT
                            !.totalRequests = @ + 1,
                            !.aiRequests = IF useAI THEN @ + 1 ELSE @,
                            !.uniqueIPs = @ \cup {ip},
                            !.endpoints = MapSet(b.day.endpoints, path, hits + 1)]]

\* A logResponse that writes to the newest log of the buffer.
logResponseLatest(a, id, status, duration) ==
    [a EXCEPT !.logs = [i \in 1..Len(a.logs) |->
                          IF i = Len(a.logs)
                          THEN [a.logs[i] EXCEPT !.status = status,
                                                 !.duration = duration]
                          ELSE a.logs[i]],
              !.total = a.total + duration,
              !.day = [a.day EXCEPT
                         !.errors = IF status >= 400 THEN @ + 1 ELSE @,
                         !.avgResponseTime = [num |-> a.total + duration,
                                              den |-> a.day.totalRequests]]]

\* logResponse on the log object `id` (which may have left the buffer).
logResponse(a, id, status, duration) ==
    [a EXCEPT !.logs = [i \in 1..Len(a.logs) |->
                          IF a.logs[i].id = id
                          THEN [a.logs[i] EXCEPT !.status = status,
                                                 !.duration = duration]
                          ELSE a.logs[i]],
              !.total = a.total + duration,
              !.day = [a.day EXCEPT
                         !.errors = IF status >= 400 THEN @ + 1 ELSE @,
                         !.avgResponseTime = [num |-> a.total + duration,
                                              den |-> a.day.totalRequests]]]

RECENT_LOGS == 50

\* The last logs of the buffer in the buffer's own order.
recentOldestFirst(logs) ==
    SubSeq(logs, IF Len(logs) > RECENT_LOGS THEN Len(logs) - RECENT_LOGS + 1 ELSE 1,
           Len(logs))

\* requestLogs.slice(-50).reverse(): a copy of the last logs, turned round.
recent(logs) ==
    LET copy == SubSeq(logs,
                       IF Len(logs) > RECENT_LOGS THEN Len(logs) - RECENT_LOGS + 1
                       ELSE 1,
                       Len(logs))
    IN [i \in 1..Len(copy) |-> copy[Len(copy) + 1 - i]]

\* getAnalytics at instant t: the module's state after it and what the
\* snapshot read.
\* historicalStats.reduce((sum, s) => sum + s.totalRequests, 0), and the same
\* for aiRequests.
RECURSIVE SumTotalRequests(_)
SumTotalRequests(hist) ==
    IF hist = <<>> THEN 0 ELSE hist[1].totalRequests + SumTotalRequests(Tail(hist))

RECURSIVE SumAiRequests(_)
SumAiRequests(hist) ==
    IF hist = <<>> THEN 0 ELSE hist[1].aiRequests + SumAiRequests(Tail(hist))

getAnalytics(a, t) ==
    LET b == checkAndResetDaily(a, t)
    IN [a |-> b,
        report |-> [query |-> "getAnalytics", date |-> b.day.date,
                    today |-> DateOf(t), recent |-> recent(b.logs),
                    totalRequestsAllTime |->
                        b.day.totalRequests + SumTotalRequests(b.hist),
                    totalAIRequestsAllTime |->
                        b.day.aiRequests + SumAiRequests(b.hist)]]

\* ------------------------------------------------------------ observations
AllKeys == {GeneralKey(c) : c \in Clients} \cup {AiKey(c) : c \in Clients} \cup {CostKey}

NoReport ==
    [query |-> "none", date |-> 0, today |-> 0, recent |-> <<>>,
     totalRequestsAllTime |-> 0, totalAIRequestsAllTime |-> 0]

NoRequest ==
    [op |-> "none", key |-> CostKey, t |-> 0, ok |-> TRUE, retryAfter |-> NoRetry,
     warned |-> FALSE, had |-> FALSE, prevCount |-> 0, prevReset |-> 0,
     count |-> 0, resetTime |-> 0]

\* What one limiter call did to the entry of `key`: before is the map it read,
\* r the result it returned.
Observe(op, key, t, before, r) ==
    [op |-> op, key |-> key, t |-> t, ok |-> r.ok, retryAfter |-> r.retryAfter,
     warned |-> (op = "trackCost" /\ r.warned),
     had |-> key \in DOMAIN before,
     prevCount |-> IF key \in DOMAIN before THEN before[key].count ELSE 0,
     prevReset |-> IF key \in DOMAIN before THEN before[key].resetTime ELSE 0,
     count |-> r.store[key].count, resetTime |-> r.store[key].resetTime]

\* The entry of `key` in `after` is another entry than the one in `before`.
Replaced(key, before, after) ==
    key \notin DOMAIN before \/ after[key].resetTime # before[key].resetTime

SeenAfter(key, before, r) ==
    [seen EXCEPT ![key] = IF Replaced(key, before, r.store) THEN 1 ELSE @ + 1]

AllowedAfter(key, before, r) ==
    [allowed EXCEPT ![key] = IF Replaced(key, before, r.store) THEN 1
                             ELSE IF r.ok THEN @ + 1 ELSE @]

RaiserAfter(key, before, r) ==
    [raiser EXCEPT ![key] =
        IF Replaced(key, before, r.store) \/ r.store[key].count # before[key].count
        THEN (IF r.ok THEN "allowed" ELSE "denied") ELSE @]

Cap(key) ==
    IF key = CostKey THEN DAILY_AI_LIMIT
    ELSE IF key[2] = "ai" THEN MAX_AI_REQUESTS_PER_HOUR ELSE MAX_REQUESTS_PER_MINUTE

Window(key) ==
    IF key = CostKey THEN DAILY_WINDOW
    ELSE IF key[2] = "ai" THEN AI_LIMIT_WINDOW ELSE RATE_LIMIT_WINDOW

\* The allowed requests of `key` in the `Window(key)` milliseconds that end at t.
Recent(g, key, t) == [u \in {v \in DOMAIN g : v > t - Window(key)} |-> g[u]]

GrantsAfter(key, r) ==
    IF rolling /\ r.ok /\ key # CostKey
    THEN [grants EXCEPT ![key] =
            [u \in DOMAIN @ \cup {now} |->
                IF u # now THEN @[u] ELSE IF u \in DOMAIN @ THEN @[u] + 1 ELSE 1]]
    ELSE grants

RECURSIVE SumOver(_, _)
SumOver(f, S) ==
    IF S = {} THEN 0
    ELSE LET u == CHOOSE v \in S : TRUE IN f[u] + SumOver(f, S \ {u})

\* Requests of `key` allowed in the window-long interval that ends now.
RollingCount(key) == SumOver(grants[key], DOMAIN grants[key])

\* No analysis in progress.
NoJob == [phase |-> "idle"]

\* The handlers of one limiter that can be in progress at a time, and a handler
\* that is not.
Handlers == 1..MaxHandlers
NotRunning == [pc |-> "idle"]
StepModes == {"steps:rateLimiter", "steps:aiRateLimiter", "steps:trackCost"}

\* ---------------------------------------------------- the limiters, one by one
\* The modules just loaded: empty maps, timers set, nothing logged.
Loaded ==
    /\ now = StartTime
    /\ rateLimitStore = <<>>
    /\ costTracker = <<>>
    /\ cleanupDue = StartTime + CLEANUP_INTERVAL
    /\ last = NoRequest
    /\ twin = NoRequest
    /\ uncleaned = [store |-> <<>>, ok |-> TRUE, retryAfter |-> NoRetry, had |-> FALSE]
    /\ seen = [k \in AllKeys |-> 0]
    /\ allowed = [k \in AllKeys |-> 0]
    /\ raiser = [k \in AllKeys |-> "none"]
    /\ grants = [k \in AllKeys |-> <<>>]
    /\ advances = 0
    /\ requestLogs = <<>>
    /\ currentDayStats = FreshDay(DateOf(StartTime))
    /\ historicalStats = <<>>
    /\ totalResponseTime = 0
    /\ hourlyDue = StartTime + HOURLY_INTERVAL
    /\ pending = {}
    /\ arrivals = 0
    /\ logged = 0
    /\ trace = <<>>
    /\ report = NoReport
    /\ flows = <<>>
    /\ running = [w \in Handlers |-> NotRunning]

Started ==
    /\ Loaded
    /\ job = NoJob

LimiterInit ==
    /\ Started
    /\ aiEnabled = TRUE
    /\ mw \in {"rateLimiter", "aiRateLimiter", "trackCost"}
    /\ rolling = FALSE
    /\ menu = {}

\* The request of `key` at t, handled on the store no timer cleans.
Uncleaned(key, t) ==
    LET r == Limiter(uncleaned.store, key, t, Cap(key), Window(key))
    IN [store |-> r.store, ok |-> r.ok, retryAfter |-> r.retryAfter,
        had |-> key \in DOMAIN uncleaned.store]

\* Requests explored per entry: up to MaxOverrun beyond its cap.
Explorable(m, key, cap) ==
    IF NewWindow(m, key, now) THEN TRUE ELSE seen[key] < cap + MaxOverrun

\* A request reaches rateLimiter() (app.use, default maxRequests).
GeneralRequest(c) ==
    /\ mw \in {"rateLimiter", "clients"}
    /\ (mw = "clients" /\ c # TestClient) => seen[GeneralKey(c)] < MaxOtherRequests
    /\ Explorable(rateLimitStore, GeneralKey(c), MAX_REQUESTS_PER_MINUTE)
    /\ LET r == rateLimiter(rateLimitStore, c, now, MAX_REQUESTS_PER_MINUTE)
           k == GeneralKey(c)
       IN /\ rateLimitStore' = r.store
          /\ last' = Observe("rateLimiter", k, now, rateLimitStore, r)
          /\ seen' = SeenAfter(k, rateLimitStore, r)
          /\ allowed' = AllowedAfter(k, rateLimitStore, r)
          /\ raiser' = RaiserAfter(k, rateLimitStore, r)
          /\ grants' = GrantsAfter(k, r)
          /\ uncleaned' = Uncleaned(k, now)
    /\ UNCHANGED <<now, costTracker, cleanupDue, mw, twin, rolling, advances, appVars, engineVars>>

\* A request reaches aiRateLimiter().
AiRequest(c) ==
    /\ mw \in {"aiRateLimiter", "clients"}
    /\ (mw = "clients" /\ c # TestClient) => seen[AiKey(c)] < MaxOtherRequests
    /\ Explorable(rateLimitStore, AiKey(c), MAX_AI_REQUESTS_PER_HOUR)
    /\ LET r == aiRateLimiter(rateLimitStore, c, now)
           k == AiKey(c)
       IN /\ rateLimitStore' = r.store
          /\ last' = Observe("aiRateLimiter", k, now, rateLimitStore, r)
          /\ seen' = SeenAfter(k, rateLimitStore, r)
          /\ allowed' = AllowedAfter(k, rateLimitStore, r)
          /\ raiser' = RaiserAfter(k, rateLimitStore, r)
          /\ grants' = GrantsAfter(k, r)
          /\ uncleaned' = Uncleaned(k, now)
    /\ UNCHANGED <<now, costTracker, cleanupDue, mw, twin, rolling, advances, appVars, engineVars>>

\* A request reaches trackCost.
CostRequest ==
    /\ mw \in {"trackCost", "clients"}
    /\ Explorable(costTracker, CostKey, DAILY_AI_LIMIT)
    /\ mw = "clients" => seen[CostKey] < MaxCostRequests
    /\ LET r == trackCost(costTracker, now)
       IN /\ costTracker' = r.store
          /\ last' = Observe("trackCost", CostKey, now, costTracker, r)
          /\ seen' = SeenAfter(CostKey, costTracker, r)
          /\ allowed' = AllowedAfter(CostKey, costTracker, r)
          /\ raiser' = RaiserAfter(CostKey, costTracker, r)
          /\ grants' = GrantsAfter(CostKey, r)
    /\ UNCHANGED <<now, rateLimitStore, cleanupDue, mw, twin, uncleaned, rolling, advances,
                   appVars, engineVars>>

\* setInterval(..., 5 * 60 * 1000) of security.ts fires.
Cleanup ==
    /\ now >= cleanupDue
    /\ rateLimitStore' = CleanupStore(rateLimitStore, now)
    /\ cleanupDue' = now + CLEANUP_INTERVAL
    /\ UNCHANGED <<now, costTracker, mw, last, twin, uncleaned, seen, allowed, raiser, rolling,
                   grants, advances, appVars, engineVars>>

\* Instants worth visiting next: the next millisecond, the last instant before,
\* the instant of, and the first instant after each entry's resetTime, and the
\* instant the cleanup is due.
Boundaries(m) ==
    UNION {{m[k].resetTime - 1, m[k].resetTime, m[k].resetTime + 1} : k \in DOMAIN m}

Instants ==
    {t \in {now + 1, cleanupDue} \cup Boundaries(rateLimitStore)
            \cup Boundaries(costTracker) : t > now}

Advance(t) ==
    /\ advances < (IF rolling THEN MaxRollingAdvances
                   ELSE IF mw = "days" THEN MaxTicks
                   ELSE IF mw \in StepModes THEN MaxStepAdvances
                   ELSE IF mw = "inflight" THEN MaxInFlightAdvances
                   ELSE IF mw = "gates" THEN MaxGateAdvances
                   ELSE IF mw # "app" THEN MaxAdvances
                   ELSE IF Cardinality(menu) = 1 THEN MaxBurstAdvances
                   ELSE MaxAppAdvances)
    /\ now' = t
    /\ advances' = advances + 1
    /\ grants' = [k \in AllKeys |-> Recent(grants[k], k, t)]
    /\ UNCHANGED <<rateLimitStore, costTracker, cleanupDue, mw, last, twin, uncleaned, seen,
                   allowed, raiser, rolling, appVars, engineVars>>

LimiterNext ==
    \/ GeneralRequest(TestClient)
    \/ AiRequest(TestClient)
    \/ CostRequest
    \/ Cleanup
    \/ \E t \in Instants : Advance(t)

\* One limiter, chosen initially, driven by the requests of one client.
SpecLimiter == LimiterInit /\ [][LimiterNext]_vars

\* The three limiters on the requests of several clients at one instant: the
\* two client limiters share rateLimitStore.
ClientsInit ==
    /\ Started
    /\ aiEnabled = TRUE
    /\ mw = "clients"
    /\ rolling = FALSE
    /\ menu = {}

ClientsNext ==
    \/ \E c \in Clients : GeneralRequest(c)
    \/ \E c \in Clients : AiRequest(c)
    \/ CostRequest

SpecClients == ClientsInit /\ [][ClientsNext]_vars

\* The client limiters, with the ledger of the instants of the allowed requests.
RollingInit ==
    /\ Started
    /\ aiEnabled = TRUE
    /\ mw \in {"rateLimiter", "aiRateLimiter"}
    /\ rolling = TRUE
    /\ menu = {}

RollingNext ==
    \/ GeneralRequest(TestClient)
    \/ AiRequest(TestClient)
    \/ \E t \in Instants : Advance(t)

SpecRolling == RollingInit /\ [][RollingNext]_vars

\* The cost governor beside the general limiter: both get every request, at the
\* same instant, with the general limiter's cap and window.
PairInit ==
    /\ Started
    /\ aiEnabled = TRUE
    /\ mw = "pair"
    /\ rolling = FALSE
    /\ menu = {}

PairRequest ==
    /\ mw = "pair"
    /\ Explorable(rateLimitStore, GeneralKey(TestClient), MAX_REQUESTS_PER_MINUTE)
    /\ LET k == GeneralKey(TestClient)
           a == rateLimiter(rateLimitStore, TestClient, now, MAX_REQUESTS_PER_MINUTE)
           b == CostStep(costTracker, now, MAX_REQUESTS_PER_MINUTE, RATE_LIMIT_WINDOW)
       IN /\ rateLimitStore' = a.store
          /\ costTracker' = b.store
          /\ last' = Observe("rateLimiter", k, now, rateLimitStore, a)
          /\ twin' = Observe("trackCost", CostKey, now, costTracker, b)
          /\ seen' = SeenAfter(k, rateLimitStore, a)
    /\ UNCHANGED <<now, cleanupDue, mw, uncleaned, allowed, raiser, rolling, grants,
                   advances, appVars, engineVars>>

PairNext ==
    \/ PairRequest
    \/ Cleanup
    \/ \E t \in Instants : Advance(t)

SpecPair == PairInit /\ [][PairNext]_vars

\* ------------------------------------------------------- index.ts: the chain
Endpoints == {"/analytics", "/analytics/top-endpoints", "/analyze/url"}

\* A request: its client, its path, whether it carries ?ai=true, whether its
\* body has what the route asks for (a url, for /analyze/url), and whether the
\* page behind that url can be fetched and analysed.
Kinds ==
    {k \in [client : Clients, endpoint : Endpoints, ai : BOOLEAN, valid : BOOLEAN,
            fetch : BOOLEAN] :
        /\ k.endpoint # "/analyze/url" => (k.valid /\ ~k.ai /\ k.fetch)
        /\ ~k.valid => (~k.ai /\ k.fetch)}

\* Traffic of one client that reads the reports and runs rule-only analyses.
ReportingMenu == {k \in Kinds : k.client = TestClient /\ ~k.ai /\ k.valid /\ k.fetch}

\* Traffic of one client to POST /analyze/url that is refused, asks for AI, or
\* fails.
AnalysisMenu == {k \in Kinds : k.client = TestClient /\ (k.ai \/ ~k.valid \/ ~k.fetch)}

\* AI analyses asked by both clients.
SharedMenu == {k \in Kinds : k.ai /\ k.fetch}

Menus == {ReportingMenu, AnalysisMenu, SharedMenu}

BurstKinds == {k \in Kinds : k.client = TestClient /\ k.fetch /\ k.valid
                              /\ k.endpoint # "/analytics/top-endpoints"
                              /\ (k.endpoint = "/analyze/url" => k.ai)}

Stage(name, ok) == [stage |-> name, ok |-> ok]

\* The gates with the cost governor asked first.
AiGatesCostFirst(store, tracker, clientId, t) ==
    LET c == trackCost(tracker, t)
    IN IF ~c.ok
       THEN [store |-> store, tracker |-> c.store, ok |-> FALSE,
             stages |-> <<Stage("cost", FALSE)>>]
       ELSE LET a == aiRateLimiter(store, clientId, t)
            IN [store |-> a.store, tracker |-> c.store, ok |-> a.ok,
                stages |-> <<Stage("cost", TRUE), Stage("ai", a.ok)>>]

\* `aiLimit(req, res, () => costTrack(req, res, () => ...))`
\* Gates that give the client its AI request back when the cost governor denies.
AiGatesRollsBack(store, tracker, clientId, t) ==
    LET a == aiRateLimiter(store, clientId, t)
    IN IF ~a.ok
       THEN [store |-> a.store, tracker |-> tracker, ok |-> FALSE,
             stages |-> <<Stage("ai", FALSE)>>]
       ELSE LET c == trackCost(tracker, t)
            IN [store |-> IF c.ok THEN a.store ELSE store, tracker |-> c.store,
                ok |-> c.ok,
                stages |-> <<Stage("ai", TRUE), Stage("cost", c.ok)>>]

AiGates(store, tracker, clientId, t) ==
    LET a == aiRateLimiter(store, clientId, t)
    IN IF ~a.ok
       THEN [store |-> a.store, tracker |-> tracker, ok |-> FALSE,
             stages |-> <<Stage("ai", FALSE)>>]
       ELSE LET c == trackCost(tracker, t)
            IN [store |-> a.store, tracker |-> c.store, ok |-> c.ok,
                stages |-> <<Stage("ai", TRUE), Stage("cost", c.ok)>>]

\* POST /analyze/url up to its first await: the status it answers at once, or
\* NoStatus when processUrlAnalysis has started and the answer comes later.
AnalyzeUrl(k, store, tracker, a, t) ==
    IF ~k.valid
    THEN [store |-> store, tracker |-> tracker, a |-> a, status |-> 400,
          stages |-> <<Stage("validate", FALSE)>>, report |-> NoReport]
    ELSE IF k.ai
    THEN LET g == AiGates(store, tracker, k.client, t)
         IN [store |-> g.store, tracker |-> g.tracker, a |-> a,
             status |-> IF g.ok THEN NoStatus ELSE 429,
             stages |-> <<Stage("validate", TRUE)>> \o g.stages
                        \o (IF g.ok THEN <<Stage("analysis", TRUE)>> ELSE <<>>),
             report |-> NoReport]
    ELSE [store |-> store, tracker |-> tracker, a |-> a, status |-> NoStatus,
          stages |-> <<Stage("validate", TRUE), Stage("analysis", TRUE)>>,
          report |-> NoReport]

\* The route handlers behind the two middlewares.
Route(k, store, tracker, a, t) ==
    IF k.endpoint = "/analytics"
    THEN LET b == getAnalytics(a, t)
         IN [store |-> store, tracker |-> tracker, a |-> b.a, status |-> 200,
             stages |-> <<>>, report |-> b.report]
    ELSE IF k.endpoint = "/analytics/top-endpoints"
    THEN [store |-> store, tracker |-> tracker, a |-> a, status |-> 200,
          stages |-> <<>>,                       \* getTopEndpoints()
          report |-> [query |-> "getTopEndpoints", date |-> a.day.date,
                      today |-> DateOf(t), recent |-> <<>>,
                      totalRequestsAllTime |-> 0, totalAIRequestsAllTime |-> 0]]
    ELSE AnalyzeUrl(k, store, tracker, a, t)

ArrivalLimit == IF Cardinality(menu) = 1 THEN MaxBurst ELSE MaxRequests

\* A burst comes from one client that sends its next request when the previous
\* one was answered; mixed traffic overlaps.
MayArrive ==
    IF Cardinality(menu) = 1 THEN pending = {}
    ELSE Cardinality(pending) < MaxInFlight

limiterObs == <<last, twin, uncleaned, seen, allowed, raiser, rolling, grants>>

\* A request arrives: app.use(rateLimiter()), the logging middleware and the
\* route handler run in one turn of the event loop.
Arrive(k) ==
    /\ mw = "app"
    /\ arrivals < ArrivalLimit
    /\ MayArrive
    /\ arrivals' = arrivals + 1
    /\ LET g == rateLimiter(rateLimitStore, k.client, now, MAX_REQUESTS_PER_MINUTE)
       IN IF ~g.ok
          THEN /\ rateLimitStore' = g.store
               /\ trace' = <<Stage("general", FALSE)>>
               /\ UNCHANGED <<costTracker, requestLogs, currentDayStats,
                              historicalStats, totalResponseTime, pending, logged,
                              report>>
          ELSE LET a == logRequest(Analytics, logged + 1, k.client, k.endpoint,
                                   k.ai, now)
                   h == Route(k, g.store, costTracker, a, now)
               IN /\ rateLimitStore' = h.store
                  /\ costTracker' = h.tracker
                  /\ requestLogs' = h.a.logs
                  /\ currentDayStats' = h.a.day
                  /\ historicalStats' = h.a.hist
                  /\ totalResponseTime' = h.a.total
                  /\ pending' = pending \cup
                        {[id |-> logged + 1, start |-> now, status |-> h.status,
                          fetch |-> k.fetch]}
                  /\ logged' = logged + 1
                  /\ trace' = <<Stage("general", TRUE), Stage("log", TRUE)>>
                              \o h.stages
                  /\ report' = IF h.report.query = "none" THEN report ELSE h.report
    /\ UNCHANGED <<now, cleanupDue, mw, limiterObs, engineVars, advances, hourlyDue, menu>>

\* processUrlAnalysis returns: res.json(...) with 200, or 500 from its catch.
AnalysisDone(p) ==
    /\ p.status = NoStatus
    /\ pending' = (pending \ {p})
                   \cup {[p EXCEPT !.status = IF p.fetch THEN 200 ELSE 500]}
    /\ UNCHANGED <<now, rateLimitStore, costTracker, cleanupDue, mw, limiterObs, engineVars,
                   advances, requestLogs, currentDayStats, historicalStats,
                   totalResponseTime, hourlyDue, menu, arrivals, logged, trace,
                   report>>

\* res.on("finish"): logResponse(log, res.statusCode, Date.now() - startTime).
Finish(p) ==
    /\ p.status # NoStatus
    /\ LET a == logResponse(Analytics, p.id, p.status, now - p.start)
       IN /\ requestLogs' = a.logs
          /\ currentDayStats' = a.day
          /\ historicalStats' = a.hist
          /\ totalResponseTime' = a.total
    /\ pending' = pending \ {p}
    /\ UNCHANGED <<now, rateLimitStore, costTracker, cleanupDue, mw, limiterObs, engineVars,
                   advances, hourlyDue, menu, arrivals, logged, trace, report>>

\* setInterval(checkAndResetDaily, 60 * 60 * 1000) fires.
HourlyCheck ==
    /\ mw \in {"app", "days"}
    /\ now >= hourlyDue
    /\ LET a == checkAndResetDaily(Analytics, now)
       IN /\ requestLogs' = a.logs
          /\ currentDayStats' = a.day
          /\ historicalStats' = a.hist
          /\ totalResponseTime' = a.total
    /\ hourlyDue' = now + HOURLY_INTERVAL
    /\ UNCHANGED <<now, rateLimitStore, costTracker, cleanupDue, mw, limiterObs, engineVars,
                   advances, pending, menu, arrivals, logged, trace, report>>

NextMidnight(t) == (DateOf(t) + 1) * MS_PER_DAY

\* Instants worth visiting next under mixed traffic: midnight, and the
\* instants the two timers are due.
AppInstants == {t \in {NextMidnight(now), hourlyDue, cleanupDue} : t > now}

AppNext ==
    \/ \E k \in menu : Arrive(k)
    \/ \E p \in pending : AnalysisDone(p)
    \/ \E p \in pending : Finish(p)
    \/ HourlyCheck
    \/ Cleanup
    \/ \E t \in AppInstants : Advance(t)

\* The application under mixed traffic.
Init ==
    /\ Started
    /\ aiEnabled = TRUE
    /\ mw = "app"
    /\ rolling = FALSE
    /\ menu \in Menus

Spec == Init /\ [][AppNext]_vars

\* The application under a burst of one kind of request from one client.
BurstInit ==
    /\ Started
    /\ aiEnabled \in BOOLEAN
    /\ mw = "app"
    /\ rolling = FALSE
    /\ menu \in {{k} : k \in BurstKinds}

\* In a burst the clock only moves to the first instant after the general
\* window of a client has closed, which keeps it before the instants the two
\* timers are due (TimersNotDue).
BurstInstants ==
    {t \in {rateLimitStore[GeneralKey(c)].resetTime + 1 :
                c \in {d \in Clients : GeneralKey(d) \in DOMAIN rateLimitStore}} :
        t > now}

BurstNext ==
    \/ \E k \in menu : Arrive(k)
    \/ \E p \in pending : AnalysisDone(p)
    \/ \E p \in pending : Finish(p)
    \/ \E t \in BurstInstants : Advance(t)

SpecBurst == BurstInit /\ [][BurstNext]_vars

TimersNotDue == now < cleanupDue /\ now < hourlyDue

\* ----------------------------- index.ts: the two AI gates, one client, hours
\* One client asks for AI analyses through aiRateLimiter and trackCost, window
\* after window of the AI limiter, until the daily limit is reached.
GatedRequest ==
    /\ mw = "gates"
    /\ Explorable(rateLimitStore, AiKey(TestClient), MAX_AI_REQUESTS_PER_HOUR)
    /\ Explorable(costTracker, CostKey, DAILY_AI_LIMIT)
    /\ LET k == AiKey(TestClient)
           g == AiGates(rateLimitStore, costTracker, TestClient, now)
           counted == g.stages[1].ok
       IN /\ rateLimitStore' = g.store
          /\ costTracker' = g.tracker
          /\ trace' = g.stages
          /\ seen' = [seen EXCEPT
                        ![k] = IF Replaced(k, rateLimitStore, g.store) THEN 1 ELSE @ + 1,
                        ![CostKey] = IF ~counted THEN @
                                     ELSE IF Replaced(CostKey, costTracker, g.tracker)
                                     THEN 1 ELSE @ + 1]
    /\ arrivals' = arrivals + 1
    /\ UNCHANGED <<now, cleanupDue, mw, last, twin, uncleaned, allowed, raiser, rolling,
                   grants, engineVars, advances, requestLogs, currentDayStats,
                   historicalStats, totalResponseTime, hourlyDue, pending, menu,
                   logged, report>>

\* The client waits until its AI window is over.
NextWindow ==
    /\ mw = "gates"
    /\ AiKey(TestClient) \in DOMAIN rateLimitStore
    /\ now <= rateLimitStore[AiKey(TestClient)].resetTime
    /\ Advance(rateLimitStore[AiKey(TestClient)].resetTime + 1)

GatesInit ==
    /\ Started
    /\ aiEnabled = TRUE
    /\ mw = "gates"
    /\ rolling = FALSE
    /\ menu = {}

GatesNext ==
    \/ GatedRequest
    \/ NextWindow

SpecGates == GatesInit /\ [][GatesNext]_vars

\* ------------------------------------- the logging middleware, driven alone
\* Requests that passed the general limiter, seen from the logging middleware
\* on: one run ("logs") receives requests until the log buffer overflows, the
\* other ("days") has traffic on its first day and then lives through the days,
\* timer by timer, until the history overflows, and then has traffic again.
RetentionInit ==
    /\ Started
    /\ aiEnabled = TRUE
    /\ mw \in {"logs", "days"}
    /\ rolling = FALSE
    /\ menu = {}

\* The logging middleware and the route handler on a GET /analytics that is
\* answered at once with 200; each request comes when the previous one was
\* answered.
LoggingMiddleware ==
    /\ mw \in {"logs", "days"}
    /\ pending = {}
    /\ IF mw = "logs" THEN logged < MaxLogged
       ELSE IF advances = 0 THEN logged < MaxDayLogs
       ELSE /\ Len(historicalStats) = HISTORY_DAYS
            /\ historicalStats[1].date > DateOf(StartTime)
            /\ Cardinality({i \in 1..Len(requestLogs) :
                               DateOf(requestLogs[i].timestamp) > DateOf(StartTime)})
                  < MaxLateLogs
    /\ LET a == logRequest(Analytics, logged + 1, TestClient, "/analytics", FALSE, now)
           b == getAnalytics(a, now)
       IN /\ requestLogs' = b.a.logs
          /\ currentDayStats' = b.a.day
          /\ historicalStats' = b.a.hist
          /\ totalResponseTime' = b.a.total
          /\ report' = b.report
    /\ pending' = {[id |-> logged + 1, start |-> now, status |-> 200, fetch |-> TRUE]}
    /\ arrivals' = arrivals + 1
    /\ logged' = logged + 1
    /\ UNCHANGED <<now, rateLimitStore, costTracker, cleanupDue, mw, limiterObs,
                   engineVars, advances, hourlyDue, menu, trace>>

\* Time moves on to midnight or to the instant the hourly timer is due,
\* whichever comes first, once the timer has fired if it was due and the
\* request at hand was answered.
Tick ==
    /\ mw = "days"
    /\ pending = {}
    /\ now < hourlyDue
    /\ Advance(IF NextMidnight(now) < hourlyDue THEN NextMidnight(now) ELSE hourlyDue)

RetentionNext ==
    \/ LoggingMiddleware
    \/ \E p \in pending : Finish(p)
    \/ HourlyCheck
    \/ Tick

SpecRetention == RetentionInit /\ [][RetentionNext]_vars

\* ------------------------------- the logging middleware, responses in flight
\* GET /principles/:id, found or not, received while earlier responses are
\* still being sent; the responses finish in any order.
Receive(status) ==
    /\ mw = "inflight"
    /\ Cardinality(pending) < MaxConcurrent
    /\ logged < MaxReceived
    /\ LET a == logRequest(Analytics, logged + 1, TestClient, "/principles/:id",
                           FALSE, now)
       IN /\ requestLogs' = a.logs
          /\ currentDayStats' = a.day
          /\ historicalStats' = a.hist
          /\ totalResponseTime' = a.total
    /\ pending' = pending \cup
          {[id |-> logged + 1, start |-> now, status |-> status, fetch |-> FALSE]}
    /\ arrivals' = arrivals + 1
    /\ logged' = logged + 1
    /\ UNCHANGED <<now, rateLimitStore, costTracker, cleanupDue, mw, limiterObs,
                   engineVars, advances, hourlyDue, menu, trace, report>>

InFlightInit ==
    /\ Started
    /\ aiEnabled = TRUE
    /\ mw = "inflight"
    /\ rolling = FALSE
    /\ menu = {}

InFlightNext ==
    \/ \E status \in {200, 404} : Receive(status)
    \/ \E p \in pending : Finish(p)
    \/ Advance(now + 1)

SpecInFlight == InFlightInit /\ [][InFlightNext]_vars

\* ----------------------------------------------------- index.ts: the texts
\* A text is the sequence of its characters.
UpperCase ==
    <<"A", "B", "C", "D", "E", "F", "G", "H", "I", "J", "K", "L", "M",
      "N", "O", "P", "Q", "R", "S", "T", "U", "V", "W", "X", "Y", "Z">>
LowerCase ==
    <<"a", "b", "c", "d", "e", "f", "g", "h", "i", "j", "k", "l", "m",
      "n", "o", "p", "q", "r", "s", "t", "u", "v", "w", "x", "y", "z">>

\* String.prototype.toLowerCase on the texts of the model
toLowerCase(text) ==
    [i \in 1..Len(text) |->
        IF \E k \in 1..Len(UpperCase) : UpperCase[k] = text[i]
        THEN LowerCase[CHOOSE k \in 1..Len(UpperCase) : UpperCase[k] = text[i]]
        ELSE text[i]]

\* String.prototype.includes
Includes(text, term) ==
    \E i \in 0..(Len(text) - Len(term)) : SubSeq(text, i + 1, i + Len(term)) = term

\* An includesAny that compares the text as it is written.
includesAnyCaseSensitive(text, terms) == \E term \in terms : Includes(text, term)

includesAny(text, terms) ==
    LET normalized == toLowerCase(text)
    IN \E term \in terms : Includes(normalized, term)

\* The keyword lists of runRules.
\* Rule 1
FailureTerms ==
    {<<"e", "r", "r", "o", "r">>,
     <<"f", "a", "i", "l">>,
     <<"r", "e", "t", "r", "y">>,
     <<"f", "a", "l", "l", "b", "a", "c", "k">>,
     <<"r", "e", "c", "o", "v", "e", "r">>,
     <<"u", "n", "d", "o">>}

\* Rule 2
ApprovalTerms ==
    {<<"a", "p", "p", "r", "o", "v", "e">>,
     <<"c", "o", "n", "f", "i", "r", "m">>,
     <<"r", "e", "v", "i", "e", "w">>,
     <<"c", "h", "e", "c", "k">>,
     <<"v", "e", "r", "i", "f", "y">>,
     <<"p", "r", "e", "v", "i", "e", "w">>,
     <<"u", "s", "e", "r", " ", "a", "p", "p", "r", "o", "v", "e", "s">>}

\* Rules 2, 6, 7, 8
AutoActTerms ==
    {<<"a", "u", "t", "o", "m", "a", "t", "i", "c", "a", "l", "l", "y">>,
     <<"a", "u", "t", "o">>,
     <<"a", "i", " ", "e", "x", "e", "c", "u", "t", "e", "s">>,
     <<"a", "i", " ", "p", "e", "r", "f", "o", "r", "m", "s">>,
     <<"a", "i", " ", "d", "o", "e", "s">>,
     <<"s", "y", "s", "t", "e", "m", " ", "s", "e", "n", "d", "s">>,
     <<"p", "u", "b", "l", "i", "s", "h">>}

\* Rule 3
ExplainTerms ==
    {<<"w", "h", "y">>,
     <<"b", "e", "c", "a", "u", "s", "e">>,
     <<"r", "e", "a", "s", "o", "n">>,
     <<"e", "x", "p", "l", "a", "i", "n", "s">>,
     <<"e", "x", "p", "l", "a", "n", "a", "t", "i", "o", "n">>,
     <<"s", "h", "o", "w", "s", " ", "r", "a", "t", "i", "o", "n", "a", "l", "e">>}

\* Rule 4
ProgressTerms ==
    {<<"l", "o", "a", "d", "i", "n", "g">>,
     <<"p", "r", "o", "g", "r", "e", "s", "s">>,
     <<"p", "r", "o", "c", "e", "s", "s", "i", "n", "g">>,
     <<"w", "o", "r", "k", "i", "n", "g">>,
     <<"s", "t", "a", "t", "u", "s">>,
     <<"i", "n", "d", "i", "c", "a", "t", "o", "r">>}

\* Rule 5
MemoryTerms ==
    {<<"r", "e", "m", "e", "m", "b", "e", "r">>,
     <<"r", "e", "c", "a", "l", "l">>,
     <<"p", "r", "e", "v", "i", "o", "u", "s">>,
     <<"h", "i", "s", "t", "o", "r", "y">>,
     <<"c", "o", "n", "t", "e", "x", "t">>,
     <<"s", "a", "v", "e", "d">>}

\* Rule 6
UndoTerms ==
    {<<"u", "n", "d", "o">>,
     <<"e", "d", "i", "t">>,
     <<"m", "o", "d", "i", "f", "y">>,
     <<"c", "h", "a", "n", "g", "e">>,
     <<"r", "e", "v", "e", "r", "t">>,
     <<"c", "a", "n", "c", "e", "l">>}

\* Rule 7
TrustTerms ==
    {<<"v", "e", "r", "i", "f", "i", "e", "d">>,
     <<"s", "e", "c", "u", "r", "e">>,
     <<"t", "r", "u", "s", "t">>,
     <<"c", "r", "e", "d", "e", "n", "t", "i", "a", "l">>,
     <<"b", "a", "d", "g", "e">>,
     <<"c", "e", "r", "t", "i", "f", "i", "c", "a", "t", "i", "o", "n">>}

\* Rule 8
ConfidenceTerms ==
    {<<"c", "o", "n", "f", "i", "d", "e", "n", "c", "e">>,
     <<"c", "e", "r", "t", "a", "i", "n", "t", "y">>,
     <<"s", "u", "r", "e">>,
     <<"m", "i", "g", "h", "t">>,
     <<"m", "a", "y">>,
     <<"u", "n", "c", "e", "r", "t", "a", "i", "n">>,
     <<"p", "r", "o", "b", "a", "b", "i", "l", "i", "t", "y">>}

AllTerms ==
    FailureTerms \cup ApprovalTerms \cup AutoActTerms \cup ExplainTerms \cup ProgressTerms
    \cup MemoryTerms \cup UndoTerms \cup TrustTerms \cup ConfidenceTerms

\* The literal evidence lists of the eight findings.
Evidence1 ==
    <<<<"N", "o", " ", "e", "r", "r", "o", "r", " ", "s", "t", "a", "t", "e", "s", " ", "m", "e", "n", "t", "i", "o", "n", "e", "d">>,
      <<"N", "o", " ", "r", "e", "t", "r", "y", " ", "o", "r", " ", "f", "a", "l", "l", "b", "a", "c", "k", " ", "o", "p", "t", "i", "o", "n", "s">>,
      <<"N", "o", " ", "r", "e", "c", "o", "v", "e", "r", "y", " ", "p", "a", "t", "h", " ", "i", "f", " ", "A", "I", " ", "f", "a", "i", "l", "s">>>>
Evidence2 ==
    <<<<"A", "I", " ", "e", "x", "e", "c", "u", "t", "e", "s", " ", "a", "c", "t", "i", "o", "n", "s", " ", "a", "u", "t", "o", "m", "a", "t", "i", "c", "a", "l", "l", "y">>,
      <<"N", "o", " ", "a", "p", "p", "r", "o", "v", "a", "l", " ", "o", "r", " ", "c", "o", "n", "f", "i", "r", "m", "a", "t", "i", "o", "n", " ", "s", "t", "e", "p">>,
      <<"U", "s", "e", "r", " ", "c", "a", "n", "n", "o", "t", " ", "r", "e", "v", "i", "e", "w", " ", "b", "e", "f", "o", "r", "e", " ", "a", "c", "t", "i", "o", "n">>>>
Evidence3 ==
    <<<<"N", "o", " ", "e", "x", "p", "l", "a", "n", "a", "t", "i", "o", "n", "s", " ", "o", "f", " ", "A", "I", " ", "r", "e", "a", "s", "o", "n", "i", "n", "g">>,
      <<"M", "i", "s", "s", "i", "n", "g", " ", "'", "w", "h", "a", "t", " ", "h", "a", "p", "p", "e", "n", "s", " ", "n", "e", "x", "t", "'", " ", "i", "n", "f", "o", "r", "m", "a", "t", "i", "o", "n">>,
      <<"U", "s", "e", "r", "s", " ", "l", "e", "f", "t", " ", "g", "u", "e", "s", "s", "i", "n", "g", " ", "w", "h", "y", " ", "a", "c", "t", "i", "o", "n", "s", " ", "w", "e", "r", "e", " ", "t", "a", "k", "e", "n">>>>
Evidence4 ==
    <<<<"N", "o", " ", "l", "o", "a", "d", "i", "n", "g", " ", "o", "r", " ", "p", "r", "o", "g", "r", "e", "s", "s", " ", "i", "n", "d", "i", "c", "a", "t", "o", "r", "s">>,
      <<"N", "o", " ", "i", "n", "t", "e", "r", "m", "e", "d", "i", "a", "t", "e", " ", "f", "e", "e", "d", "b", "a", "c", "k">>,
      <<"U", "s", "e", "r", "s", " ", "d", "o", "n", "'", "t", " ", "k", "n", "o", "w", " ", "i", "f", " ", "s", "y", "s", "t", "e", "m", " ", "i", "s", " ", "w", "o", "r", "k", "i", "n", "g">>>>
Evidence5 ==
    <<<<"N", "o", " ", "m", "e", "n", "t", "i", "o", "n", " ", "o", "f", " ", "r", "e", "m", "e", "m", "b", "e", "r", "i", "n", "g", " ", "c", "o", "n", "t", "e", "x", "t">>,
      <<"N", "o", " ", "r", "e", "f", "e", "r", "e", "n", "c", "e", " ", "t", "o", " ", "p", "r", "e", "v", "i", "o", "u", "s", " ", "i", "n", "t", "e", "r", "a", "c", "t", "i", "o", "n", "s">>,
      <<"L", "i", "k", "e", "l", "y", " ", "r", "e", "p", "e", "a", "t", "s", " ", "q", "u", "e", "s", "t", "i", "o", "n", "s">>>>
Evidence6 ==
    <<<<"N", "o", " ", "u", "n", "d", "o", " ", "o", "r", " ", "e", "d", "i", "t", " ", "c", "a", "p", "a", "b", "i", "l", "i", "t", "y">>,
      <<"A", "I", " ", "a", "c", "t", "i", "o", "n", "s", " ", "a", "p", "p", "e", "a", "r", " ", "p", "e", "r", "m", "a", "n", "e", "n", "t">>,
      <<"N", "o", " ", "w", "a", "y", " ", "t", "o", " ", "f", "i", "x", " ", "A", "I", " ", "m", "i", "s", "t", "a", "k", "e", "s">>>>
Evidence7 ==
    <<<<"N", "o", " ", "v", "e", "r", "i", "f", "i", "c", "a", "t", "i", "o", "n", " ", "o", "r", " ", "c", "r", "e", "d", "i", "b", "i", "l", "i", "t", "y", " ", "i", "n", "d", "i", "c", "a", "t", "o", "r", "s">>,
      <<"N", "o", " ", "t", "r", "u", "s", "t", "-", "b", "u", "i", "l", "d", "i", "n", "g", " ", "e", "l", "e", "m", "e", "n", "t", "s">>,
      <<"M", "i", "s", "s", "i", "n", "g", " ", "s", "e", "c", "u", "r", "i", "t", "y", " ", "o", "r", " ", "a", "u", "t", "h", "o", "r", "i", "t", "y", " ", "s", "i", "g", "n", "a", "l", "s">>>>
Evidence8 ==
    <<<<"N", "o", " ", "c", "o", "n", "f", "i", "d", "e", "n", "c", "e", " ", "s", "c", "o", "r", "e", "s", " ", "s", "h", "o", "w", "n">>,
      <<"M", "i", "s", "s", "i", "n", "g", " ", "u", "n", "c", "e", "r", "t", "a", "i", "n", "t", "y", " ", "i", "n", "d", "i", "c", "a", "t", "o", "r", "s">>,
      <<"D", "o", "e", "s", "n", "'", "t", " ", "f", "l", "a", "g", " ", "l", "o", "w", "-", "c", "o", "n", "f", "i", "d", "e", "n", "c", "e", " ", "o", "u", "t", "p", "u", "t", "s">>>>

\* The texts the flows of the model are made of.
\* "AI generates content"
TextGenerates ==
  <<
    "A", "I", " ", "g", "e", "n", "e", "r", "a", "t", "e", "s", " ", "c", "o", "n",
    "t", "e", "n", "t"
  >>

\* "Post is automatically published"
TextPublished ==
  <<
    "P", "o", "s", "t", " ", "i", "s", " ", "a", "u", "t", "o", "m", "a", "t", "i",
    "c", "a", "l", "l", "y", " ", "p", "u", "b", "l", "i", "s", "h", "e", "d"
  >>

\* "User APPROVES the preview"
TextApproves ==
  <<
    "U", "s", "e", "r", " ", "A", "P", "P", "R", "O", "V", "E", "S", " ", "t", "h",
    "e", " ", "p", "r", "e", "v", "i", "e", "w"
  >>

\* "Show status and error, explain why, allow undo; saved, verified, 90% sure"
TextSafeguards ==
  <<
    "S", "h", "o", "w", " ", "s", "t", "a", "t", "u", "s", " ", "a", "n", "d", " ",
    "e", "r", "r", "o", "r", ",", " ", "e", "x", "p", "l", "a", "i", "n", " ", "w",
    "h", "y", ",", " ", "a", "l", "l", "o", "w", " ", "u", "n", "d", "o", ";", " ",
    "s", "a", "v", "e", "d", ",", " ", "v", "e", "r", "i", "f", "i", "e", "d", ",",
    " ", "9", "0", "%", " ", "s", "u", "r", "e"
  >>

\* "approve posts"
GoalApprovePosts ==
  <<
    "a", "p", "p", "r", "o", "v", "e", " ", "p", "o", "s", "t", "s"
  >>

\* "automatically published"
AutomaticallyPublished ==
  <<
    "a", "u", "t", "o", "m", "a", "t", "i", "c", "a", "l", "l", "y", " ", "p", "u",
    "b", "l", "i", "s", "h", "e", "d"
  >>

\* ------------------------------------------------- index.ts: the rule engine
\* A flow is its goal and the texts of its steps; a finding carries the fields
\* the analysis result is read by (description and recommendation are fixed
\* texts per rule and are left out).  crypto.randomUUID() gives a finding a
\* fresh identity: the model names it by who made it and where.  A confidence
\* is written in hundredths.
Finding(n, severity, category, title, evidence, principleId, confidence) ==
    [id |-> <<"rule", n>>, severity |-> severity, category |-> category,
     title |-> title, evidence |-> evidence, principleId |-> principleId,
     confidence |-> confidence]

\* A test that looks at the first step only.
SomeFirst(flow, terms) ==
    Len(flow.steps) > 0 /\ includesAny(flow.steps[1], terms)

Some(flow, terms) ==
    \E i \in 1..Len(flow.steps) : includesAny(flow.steps[i], terms)

hasFailure(flow) == Some(flow, FailureTerms)
hasApproval(flow) == Some(flow, ApprovalTerms)

\* An autonomous-action test that every flow passes.
hasAutoActAlways(flow) == TRUE

hasAutoAct(flow) == Some(flow, AutoActTerms)

hasExplain(flow) == Some(flow, ExplainTerms)
hasProgress(flow) == Some(flow, ProgressTerms)
hasMemory(flow) == Some(flow, MemoryTerms)
hasUndo(flow) == Some(flow, UndoTerms)
hasTrust(flow) == Some(flow, TrustTerms)
hasConfidence(flow) == Some(flow, ConfidenceTerms)

Rule1(flow) ==
    IF ~hasFailure(flow)
    THEN <<Finding(1, "HIGH", "RECOVERY", "No error handling or recovery path defined",
                   Evidence1, "principle_graceful_failure", 90)>>
    ELSE <<>>

Rule2(flow) ==
    IF ~hasApproval(flow) /\ hasAutoAct(flow)
    THEN <<Finding(2, "HIGH", "CONTROL", "AI takes actions without user approval",
                   Evidence2, "principle_human_in_loop", 95)>>
    ELSE <<>>

Rule3(flow) ==
    IF ~hasExplain(flow)
    THEN <<Finding(3, "MEDIUM", "TRANSPARENCY", "AI decisions lack transparency",
                   Evidence3, "principle_explainability", 85)>>
    ELSE <<>>

\* A progress check that already fires for three steps.
Rule4FromThree(flow) ==
    IF ~hasProgress(flow) /\ Len(flow.steps) >= 3
    THEN <<Finding(4, "MEDIUM", "TRANSPARENCY",
                   "Missing real-time feedback on system status",
                   Evidence4, "principle_feedback_visibility", 80)>>
    ELSE <<>>

Rule4(flow) ==
    IF ~hasProgress(flow) /\ Len(flow.steps) > 3
    THEN <<Finding(4, "MEDIUM", "TRANSPARENCY",
                   "Missing real-time feedback on system status",
                   Evidence4, "principle_feedback_visibility", 80)>>
    ELSE <<>>

Rule5(flow) ==
    IF ~hasMemory(flow) /\ Len(flow.steps) > 2
    THEN <<Finding(5, "MEDIUM", "MEMORY", "System doesn't remember user context",
                   Evidence5, "principle_context_awareness", 75)>>
    ELSE <<>>

\* An undo check that does not ask whether the flow acts on its own.
Rule6Ungated(flow) ==
    IF ~hasUndo(flow)
    THEN <<Finding(6, "MEDIUM", "CONTROL", "No way to undo or edit AI actions",
                   Evidence6, "principle_undo_redo", 85)>>
    ELSE <<>>

Rule6(flow) ==
    IF ~hasUndo(flow) /\ hasAutoAct(flow)
    THEN <<Finding(6, "MEDIUM", "CONTROL", "No way to undo or edit AI actions",
                   Evidence6, "principle_undo_redo", 85)>>
    ELSE <<>>

Rule7(flow) ==
    IF ~hasTrust(flow) /\ hasAutoAct(flow)
    THEN <<Finding(7, "LOW", "TRUST", "Missing trust and credibility signals",
                   Evidence7, "principle_consent_clarity", 70)>>
    ELSE <<>>

Rule8(flow) ==
    IF ~hasConfidence(flow) /\ hasAutoAct(flow)
    THEN <<Finding(8, "LOW", "TRUST", "AI doesn't communicate confidence levels",
                   Evidence8, "principle_trust_calibration", 80)>>
    ELSE <<>>

runRules(flow) ==
    Rule1(flow) \o Rule2(flow) \o Rule3(flow) \o Rule4(flow)
    \o Rule5(flow) \o Rule6(flow) \o Rule7(flow) \o Rule8(flow)

\* calculateOverallRisk
calculateOverallRisk(findings) ==
    IF \E i \in 1..Len(findings) : findings[i].severity = "HIGH" THEN "HIGH"
    ELSE IF \E i \in 1..Len(findings) : findings[i].severity = "MEDIUM" THEN "MEDIUM"
    ELSE "LOW"

\* extractHighlights: findings.slice(0, 3).map(f => f.title)
extractHighlights(findings) ==
    [i \in 1..(IF Len(findings) < 3 THEN Len(findings) ELSE 3) |-> findings[i].title]

\* ------------------------------------------ index.ts: the AI path and the merge
\* What the model may answer.  A raw finding is the object parsed from the
\* reply: a function on the fields the reply carries.
Undefined == "undefined"

RawControl ==
    [severity |-> "HIGH", category |-> "CONTROL",
     title |-> "Agent acts without consent", confidence |-> 90,
     evidence |-> <<TextPublished>>, principleId |-> "principle_human_in_loop"]
RawTrust ==
    [severity |-> "LOW", category |-> "TRUST", title |-> "Unclear data use"]
RawBare ==
    [title |-> "", confidence |-> 150]
RawOffScale ==
    [severity |-> "CRITICAL", category |-> "MEMORY",
     title |-> "Context lost between steps", confidence |-> 0]
RawFindings == {RawControl, RawTrust, RawBare, RawOffScale}

RECURSIVE SeqsUpTo(_, _)
SeqsUpTo(S, n) ==
    IF n = 0 THEN {<<>>}
    ELSE LET shorter == SeqsUpTo(S, n - 1)
         IN shorter \cup {Append(s, x) : s \in {q \in shorter : Len(q) = n - 1}, x \in S}

\* The call fails, the content is not JSON, `findings` is not a list, or it is
\* a list of raw findings.
AIReplies ==
    {[kind |-> k, findings |-> <<>>] : k \in {"throws", "unparsable", "not-a-list"}}
    \cup {[kind |-> "findings", findings |-> fs] : fs \in SeqsUpTo(RawFindings, MaxAIFindings)}

Clamp(c) == IF c < 0 THEN 0 ELSE IF c > 100 THEN 100 ELSE c

\* The map callback of runAIAnalysis: `x || d` takes d when x is missing, empty or 0.
Normalize(f, i) ==
    [id |-> <<"ai", i>>,
     severity |-> IF "severity" \in DOMAIN f /\ f.severity # "" THEN f.severity ELSE "MEDIUM",
     category |-> IF "category" \in DOMAIN f /\ f.category # "" THEN f.category
                  ELSE "TRANSPARENCY",
     title |-> IF "title" \in DOMAIN f /\ f.title # "" THEN f.title ELSE "AI-detected issue",
     evidence |-> IF "evidence" \in DOMAIN f THEN f.evidence ELSE <<>>,
     principleId |-> IF "principleId" \in DOMAIN f THEN f.principleId ELSE Undefined,
     confidence |-> Clamp(IF "confidence" \in DOMAIN f /\ f.confidence # 0
                          THEN f.confidence ELSE 70)]

\* A runAIAnalysis that lets a failure of the call or of the parse escape.
runAIAnalysisRethrows(enabled, reply) ==
    IF ~enabled THEN [threw |-> FALSE, findings |-> <<>>]
    ELSE IF reply.kind # "findings" THEN [threw |-> TRUE, findings |-> <<>>]
    ELSE [threw |-> FALSE,
          findings |-> [i \in 1..Len(reply.findings) |-> Normalize(reply.findings[i], i)]]

\* runAIAnalysis: what it returns, and whether an exception leaves it.
runAIAnalysis(enabled, reply) ==
    IF ~enabled THEN [threw |-> FALSE, findings |-> <<>>]
    ELSE IF reply.kind # "findings" THEN [threw |-> FALSE, findings |-> <<>>]
    ELSE [threw |-> FALSE,
          findings |-> [i \in 1..Len(reply.findings) |-> Normalize(reply.findings[i], i)]]

\* sortBySeverity's comparator: order[a.severity] - order[b.severity]; with a
\* severity outside `order` the difference is NaN, which sort reads as 0.
order == [HIGH |-> 0, MEDIUM |-> 1, LOW |-> 2]
Compare(a, b) ==
    IF a.severity \in DOMAIN order /\ b.severity \in DOMAIN order
    THEN order[a.severity] - order[b.severity]
    ELSE 0

\* Array.prototype.sort as Node runs it on a short array: the leading run is
\* found (and reversed when strictly descending), the rest is inserted by
\* binary search.
RECURSIVE RunEnd(_, _, _)
RunEnd(s, descending, idx) ==
    IF idx > Len(s) THEN idx - 1
    ELSE LET o == Compare(s[idx], s[idx - 1])
         IN IF descending /\ o >= 0 THEN idx - 1
            ELSE IF ~descending /\ o < 0 THEN idx - 1
            ELSE RunEnd(s, descending, idx + 1)

Reverse(s) == [i \in 1..Len(s) |-> s[Len(s) + 1 - i]]

RECURSIVE InsertionPoint(_, _, _, _)
InsertionPoint(s, pivot, left, right) ==
    IF left >= right THEN left
    ELSE LET mid == left + ((right - left) \div 2)
         IN IF Compare(pivot, s[mid + 1]) < 0
            THEN InsertionPoint(s, pivot, left, mid)
            ELSE InsertionPoint(s, pivot, mid + 1, right)

RECURSIVE BinaryInsertionSort(_, _)
BinaryInsertionSort(s, start) ==
    IF start > Len(s) THEN s
    ELSE LET at == InsertionPoint(s, s[start], 0, start - 1)
             moved == SubSeq(s, 1, at) \o <<s[start]>> \o SubSeq(s, at + 1, start - 1)
                      \o SubSeq(s, start + 1, Len(s))
         IN BinaryInsertionSort(moved, start + 1)

ArraySort(s) ==
    IF Len(s) < 2 THEN s
    ELSE LET descending == Compare(s[2], s[1]) < 0
             run == RunEnd(s, descending, 3)
             made == IF descending
                     THEN Reverse(SubSeq(s, 1, run)) \o SubSeq(s, run + 1, Len(s))
                     ELSE s
         IN BinaryInsertionSort(made, run + 1)

sortBySeverity(findings) == ArraySort(findings)

\* A merge that keeps every rule finding.
MergeKeepAll(aiFindings, ruleFindings) == aiFindings \o ruleFindings

\* runHybridAnalysis, lines 681-688: the rule findings of a category the AI
\* reported are dropped, the AI findings come first.
Merge(aiFindings, ruleFindings) ==
    LET aiCategories == {aiFindings[i].category : i \in 1..Len(aiFindings)}
        filteredRuleFindings ==
            SelectSeq(ruleFindings, LAMBDA f : f.category \notin aiCategories)
    IN aiFindings \o filteredRuleFindings

\* A guard that forgets to ask whether AI was requested.
RulesOnlyUnasked(useAI, enabled) == ~enabled

\* The guard of runHybridAnalysis that answers with the rule findings alone.
RulesOnly(useAI, enabled) == ~useAI \/ ~enabled

\* performFlowAnalysis: the response built from what runHybridAnalysis gave.
Response(flow, useAI, ruleFindings, reply, aiCalls, ai, outcome) ==
    [phase |-> "done", flow |-> flow, useAI |-> useAI, ruleFindings |-> ruleFindings,
     reply |-> reply, aiCalls |-> aiCalls, aiFindings |-> ai,
     status |-> IF outcome.threw THEN 500 ELSE 200,
     findings |-> outcome.findings,
     overallRisk |-> IF outcome.threw THEN "none" ELSE calculateOverallRisk(outcome.findings),
     highlights |-> IF outcome.threw THEN <<>> ELSE extractHighlights(outcome.findings),
     aiEnhanced |-> useAI /\ aiEnabled]

NoReply == [kind |-> "none", findings |-> <<>>]

StepTexts == {TextGenerates, TextPublished, TextApproves, TextSafeguards}
Flows ==
    {[goal |-> GoalApprovePosts, steps |-> s] :
        s \in SeqsUpTo(StepTexts, MaxSteps) \ {<<>>}}

\* performFlowAnalysis up to the first await of runHybridAnalysis: the response,
\* or the analysis left waiting for the model.
StartAnalysis(flow, useAI) ==
    LET ruleFindings == runRules(flow)
    IN IF RulesOnly(useAI, aiEnabled)
       THEN Response(flow, useAI, ruleFindings, NoReply, 0, <<>>,
                     [threw |-> FALSE, findings |-> sortBySeverity(ruleFindings)])
       ELSE IF ~aiEnabled
       THEN LET ai == runAIAnalysis(FALSE, NoReply)
            IN Response(flow, useAI, ruleFindings, NoReply, 0, ai.findings,
                        [threw |-> ai.threw,
                         findings |-> sortBySeverity(Merge(ai.findings, ruleFindings))])
       ELSE [phase |-> "ai", flow |-> flow, useAI |-> useAI,
             ruleFindings |-> ruleFindings, aiCalls |-> 1]

\* An analysis of `flow` is asked of the engine.
Analyze(flow, useAI) ==
    /\ mw = "engine"
    /\ job.phase = "idle"
    /\ job' = StartAnalysis(flow, useAI)
    /\ UNCHANGED <<now, rateLimitStore, costTracker, cleanupDue, mw, limiterObs,
                   aiEnabled, flows, running, advances, appVars>>

\* The call to the model settles and runHybridAnalysis runs to its end.
AIReturns(reply) ==
    /\ mw \in {"engine", "flows"}
    /\ job.phase = "ai"
    /\ LET ai == runAIAnalysis(aiEnabled, reply)
       IN job' = Response(job.flow, job.useAI, job.ruleFindings, reply, job.aiCalls,
                          ai.findings,
                          IF ai.threw THEN [threw |-> TRUE, findings |-> <<>>]
                          ELSE [threw |-> FALSE,
                                findings |->
                                    sortBySeverity(Merge(ai.findings, job.ruleFindings))])
    /\ UNCHANGED <<now, rateLimitStore, costTracker, cleanupDue, mw, limiterObs,
                   aiEnabled, flows, running, advances, appVars>>

\* The response is sent.
Respond ==
    /\ mw \in {"engine", "flows"}
    /\ job.phase = "done"
    /\ job' = NoJob
    /\ UNCHANGED <<now, rateLimitStore, costTracker, cleanupDue, mw, limiterObs,
                   aiEnabled, flows, running, advances, appVars>>

EngineInit ==
    /\ Started
    /\ aiEnabled \in BOOLEAN
    /\ mw = "engine"
    /\ rolling = FALSE
    /\ menu = {}

EngineNext ==
    \/ \E flow \in Flows, useAI \in BOOLEAN : Analyze(flow, useAI)
    \/ \E reply \in AIReplies : AIReturns(reply)
    \/ Respond

SpecEngine == EngineInit /\ [][EngineNext]_vars

\* The model never settles the call: runAIAnalysis awaits
\* openai.chat.completions.create without a timeout of its own, so nothing
\* else resumes the analysis.
NeverAnswers ==
    /\ mw = "engine"
    /\ job.phase = "ai"
    /\ job' = [job EXCEPT !.phase = "unanswered"]
    /\ UNCHANGED <<now, rateLimitStore, costTracker, cleanupDue, mw, limiterObs,
                   aiEnabled, flows, running, advances, appVars>>

FairNext ==
    \/ EngineNext
    \/ NeverAnswers

\* The engine with the event loop's guarantees: a settled call resumes the
\* analysis and a built response is sent.
SpecEngineFair ==
    /\ EngineInit
    /\ [][FairNext]_vars
    /\ WF_vars(\E reply \in AIReplies : AIReturns(reply))
    /\ WF_vars(Respond)

\* ------------------------ index.ts: the two analysis routes, request by request
\* A request to one of the two analysis routes: whether it asks for AI, whether
\* its body passes the route's validation, whether the flow it names is stored
\* (POST /flows/:id/analyze) and whether the page can be fetched (POST /analyze/url).
OutcomeKinds ==
    {k \in [endpoint : {"/analyze/url", "/flows/:id/analyze"}, ai : BOOLEAN,
            valid : BOOLEAN, found : BOOLEAN, fetch : BOOLEAN] :
        /\ k.endpoint = "/analyze/url" => k.found
        /\ k.endpoint = "/flows/:id/analyze" => k.fetch
        /\ ~k.valid => (~k.ai /\ k.found /\ k.fetch)
        /\ ~k.found => ~k.ai}

\* "Visit website"
TextVisit ==
  <<
    "V", "i", "s", "i", "t", " ", "w", "e", "b", "s", "i", "t", "e"
  >>

\* "Browse content"
TextBrowse ==
  <<
    "B", "r", "o", "w", "s", "e", " ", "c", "o", "n", "t", "e", "n", "t"
  >>

\* "Shop", the <title> of the page fetched
PageTitle ==
  <<
    "S", "h", "o", "p"
  >>

\* The flow processUrlAnalysis makes of a page with a title and no headings.
PageFlow == [goal |-> PageTitle, steps |-> <<TextVisit, TextBrowse>>]

\* The exchange of a request: the statuses sent on its response so far, what
\* its handler awaits, and whether the analysis was begun.
Exchange(id, log, sent, wait, analysed) ==
    [id |-> id, log |-> log, start |-> now, sent |-> sent, wait |-> wait,
     analysed |-> analysed]

\* runHybridAnalysis to its first await, on the response `sent` so far:
\* res.json of the rules' findings, or the wait for the model.
BeginAnalysis(useAI, sent) ==
    IF RulesOnly(useAI, aiEnabled)
    THEN [sent |-> Append(sent, 200), wait |-> "none", analysed |-> TRUE]
    ELSE [sent |-> sent, wait |-> "ai", analysed |-> TRUE]

\* The route handler to its first await.
Handle(k, store, tracker, t) ==
    LET begun == IF k.endpoint = "/analyze/url"
                 THEN [sent |-> <<>>, wait |-> "fetch", analysed |-> FALSE]
                 ELSE BeginAnalysis(k.ai, <<>>)
        answer(status) == [sent |-> <<status>>, wait |-> "none", analysed |-> FALSE]
    IN IF ~k.valid
       THEN [store |-> store, tracker |-> tracker, x |-> answer(400),
             stages |-> <<Stage("validate", FALSE)>>]
       ELSE IF ~k.found
       THEN [store |-> store, tracker |-> tracker, x |-> answer(404),
             stages |-> <<Stage("validate", TRUE), Stage("lookup", FALSE)>>]
       ELSE IF k.ai
       THEN LET g == AiGates(store, tracker, TestClient, t)
            IN [store |-> g.store, tracker |-> g.tracker,
                x |-> IF g.ok THEN begun ELSE answer(429),
                stages |-> <<Stage("validate", TRUE)>> \o g.stages]
       ELSE [store |-> store, tracker |-> tracker, x |-> begun,
             stages |-> <<Stage("validate", TRUE)>>]

\* A request arrives: app.use(rateLimiter()), the logging middleware and the
\* route handler to its first await.
Inbound(k) ==
    /\ mw = "outcome"
    /\ pending = {}
    /\ arrivals < MaxOutcomeRequests
    /\ arrivals' = arrivals + 1
    /\ LET g == rateLimiter(rateLimitStore, TestClient, now, MAX_REQUESTS_PER_MINUTE)
       IN IF ~g.ok
          THEN /\ rateLimitStore' = g.store
               /\ trace' = <<Stage("general", FALSE)>>
               /\ pending' = {Exchange(arrivals + 1, 0, <<429>>, "none", FALSE)}
               /\ UNCHANGED <<costTracker, requestLogs, currentDayStats,
                              historicalStats, totalResponseTime, logged>>
          ELSE LET a == logRequest(Analytics, logged + 1, TestClient, k.endpoint,
                                   k.ai, now)
                   h == Handle(k, g.store, costTracker, now)
               IN /\ rateLimitStore' = h.store
                  /\ costTracker' = h.tracker
                  /\ requestLogs' = a.logs
                  /\ currentDayStats' = a.day
                  /\ historicalStats' = a.hist
                  /\ totalResponseTime' = a.total
                  /\ logged' = logged + 1
                  /\ trace' = <<Stage("general", TRUE), Stage("log", TRUE)>>
                              \o h.stages
                  /\ pending' = {Exchange(arrivals + 1, logged + 1, h.x.sent,
                                          h.x.wait, h.x.analysed)}
    /\ UNCHANGED <<now, cleanupDue, mw, limiterObs, engineVars, advances, hourlyDue,
                   menu, report>>

Awaited(p, x) ==
    /\ pending' = (pending \ {p})
                   \cup {[p EXCEPT !.sent = x.sent, !.wait = x.wait,
                                   !.analysed = x.analysed]}
    /\ UNCHANGED <<now, rateLimitStore, costTracker, cleanupDue, mw, limiterObs,
                   advances, requestLogs, currentDayStats, historicalStats,
                   totalResponseTime, hourlyDue, menu, arrivals, logged, trace,
                   report>>

\* axios.get(url, { timeout: 10000 }) settles: the page, or the catch of
\* processUrlAnalysis with 500.
FetchSettles(p, k) ==
    /\ mw = "outcome"
    /\ p.wait = "fetch"
    /\ Awaited(p, IF k.fetch THEN BeginAnalysis(k.ai, p.sent)
                  ELSE [sent |-> Append(p.sent, 500), wait |-> "none",
                        analysed |-> FALSE])
    /\ flows' = IF k.fetch THEN MapSet(flows, Cardinality(DOMAIN flows) + 1, PageFlow)
                ELSE flows
    /\ UNCHANGED <<aiEnabled, job, running>>

\* The call to the model settles: runHybridAnalysis runs to its end and the
\* route answers, with 500 if an exception left the analysis.
ModelSettles(p, reply) ==
    /\ mw = "outcome"
    /\ p.wait = "ai"
    /\ LET ai == runAIAnalysis(aiEnabled, reply)
       IN Awaited(p, [sent |-> Append(p.sent, IF ai.threw THEN 500 ELSE 200),
                      wait |-> "none", analysed |-> TRUE])
    /\ UNCHANGED engineVars

\* The model never settles the call, and nothing else resumes the handler.
ModelNeverAnswers(p) ==
    /\ mw = "outcome"
    /\ p.wait = "ai"
    /\ Awaited(p, [sent |-> p.sent, wait |-> "unanswered", analysed |-> TRUE])
    /\ UNCHANGED engineVars

\* res.on("finish") of a response that was sent: logResponse, if the request
\* went through the logging middleware.
Closes(p) ==
    /\ mw = "outcome"
    /\ p.wait = "none"
    /\ Len(p.sent) > 0
    /\ LET a == IF p.log = 0 THEN Analytics
                ELSE logResponse(Analytics, p.log, p.sent[1], now - p.start)
       IN /\ requestLogs' = a.logs
          /\ currentDayStats' = a.day
          /\ historicalStats' = a.hist
          /\ totalResponseTime' = a.total
    /\ pending' = pending \ {p}
    /\ UNCHANGED <<now, rateLimitStore, costTracker, cleanupDue, mw, limiterObs,
                   engineVars, advances, hourlyDue, menu, arrivals, logged, trace,
                   report>>

\* The client has used up its minute and waits until the window is over.
WaitsOutMinute ==
    /\ mw = "outcome"
    /\ GeneralKey(TestClient) \in DOMAIN rateLimitStore
    /\ rateLimitStore[GeneralKey(TestClient)].count >= MAX_REQUESTS_PER_MINUTE
    /\ now <= rateLimitStore[GeneralKey(TestClient)].resetTime
    /\ Advance(rateLimitStore[GeneralKey(TestClient)].resetTime + 1)

OutcomeInit ==
    /\ Started
    /\ aiEnabled \in BOOLEAN
    /\ mw = "outcome"
    /\ rolling = FALSE
    /\ menu \in {{k} : k \in OutcomeKinds}

OutcomeNext ==
    \/ \E k \in menu : Inbound(k)
    \/ \E p \in pending, k \in menu : FetchSettles(p, k)
    \/ \E p \in pending, reply \in AIReplies : ModelSettles(p, reply)
    \/ \E p \in pending : ModelNeverAnswers(p)
    \/ \E p \in pending : Closes(p)
    \/ WaitsOutMinute

\* The two analysis routes with the event loop's guarantees: a settled fetch or
\* call resumes its handler, and a response that was sent finishes.
SpecOutcome ==
    /\ OutcomeInit
    /\ [][OutcomeNext]_vars
    /\ WF_vars(\E p \in pending, k \in menu : FetchSettles(p, k))
    /\ WF_vars(\E p \in pending, reply \in AIReplies : ModelSettles(p, reply))
    /\ WF_vars(\E p \in pending : Closes(p))

\* ------------------------------------ security.ts: a handler, step by step
\* The limiter whose handlers the run follows, its key, its store, and the
\* handler as one operation.
StepKey ==
    IF mw = "steps:trackCost" THEN CostKey
    ELSE IF mw = "steps:aiRateLimiter" THEN AiKey(TestClient) ELSE GeneralKey(TestClient)
StepStore == IF mw = "steps:trackCost" THEN costTracker ELSE rateLimitStore
StepOp ==
    IF mw = "steps:trackCost" THEN "trackCost"
    ELSE IF mw = "steps:aiRateLimiter" THEN "aiRateLimiter" ELSE "rateLimiter"
Whole(store, t) ==
    IF mw = "steps:trackCost"
    THEN LET c == trackCost(store, t)
         IN [store |-> c.store, ok |-> c.ok, retryAfter |-> c.retryAfter]
    ELSE IF mw = "steps:aiRateLimiter"
    THEN aiRateLimiter(store, TestClient, t)
    ELSE rateLimiter(store, TestClient, t, MAX_REQUESTS_PER_MINUTE)

\* The first half of a handler: Date.now(), Map.get and the tests on what was
\* read.  trackCost tests the count only after raising it.
Decide(store, key, t) ==
    IF NewWindow(store, key, t) THEN "new"
    ELSE IF key = CostKey THEN "count"
    ELSE IF AtLimit(store[key].count, Cap(key)) THEN "deny"
    ELSE "count"

\* The second half: Map.set of a fresh entry, the 429, or entry.count++ on the
\* entry object that was read (trackCost then answers by the raised count).
Effect(store, key, t, decision) ==
    IF decision = "new"
    THEN [store |-> MapSet(store, key, [count |-> 1, resetTime |-> t + Window(key)]),
          ok |-> TRUE, retryAfter |-> NoRetry, warned |-> FALSE]
    ELSE IF decision = "deny"
    THEN [store |-> store, ok |-> FALSE,
          retryAfter |-> IF key \in DOMAIN store THEN RetryAfter(store[key], t)
                         ELSE NoRetry,
          warned |-> FALSE]
    ELSE IF key \notin DOMAIN store
    THEN [store |-> store, ok |-> TRUE, retryAfter |-> NoRetry, warned |-> FALSE]
    ELSE LET c == store[key].count + 1
             stopped == key = CostKey /\ AtLimit(c, Cap(key))
         IN [store |-> MapSet(store, key, [store[key] EXCEPT !.count = c]),
             ok |-> ~stopped, retryAfter |-> NoRetry,
             warned |-> key = CostKey /\ ~stopped /\ Warns(c, Cap(key))]

\* A handler whose statements other callbacks may run between.
EventLoopFreeAlways(w) == TRUE

\* The handlers are synchronous functions on the one thread of the event loop:
\* a callback starts only when no handler is part-way.
EventLoopFree(w) == \A v \in Handlers \ {w} : running[v].pc = "idle"

\* A request enters the limiter: the first half of the handler runs.
Enter(w) ==
    /\ mw \in StepModes
    /\ running[w].pc = "idle"
    /\ EventLoopFree(w)
    /\ Explorable(StepStore, StepKey, Cap(StepKey))
    /\ running' = [running EXCEPT ![w] =
                      [pc |-> "decided", t |-> now,
                       decision |-> Decide(StepStore, StepKey, now)]]
    /\ UNCHANGED <<now, rateLimitStore, costTracker, cleanupDue, mw, limiterObs,
                   aiEnabled, job, flows, advances, appVars>>

\* The second half of the handler runs and the request is answered.
Leave(w) ==
    /\ mw \in StepModes
    /\ running[w].pc = "decided"
    /\ LET r == Effect(StepStore, StepKey, running[w].t, running[w].decision)
           k == StepKey
           seenNow == SeenAfter(k, StepStore, r)
       IN /\ IF k = CostKey
             THEN costTracker' = r.store /\ rateLimitStore' = rateLimitStore
             ELSE rateLimitStore' = r.store /\ costTracker' = costTracker
          /\ last' = IF k \in DOMAIN r.store
                     THEN Observe(StepOp, k, running[w].t, StepStore, r)
                     ELSE last
          /\ seen' = IF k \in DOMAIN r.store THEN seenNow ELSE seen
          /\ allowed' = IF k \in DOMAIN r.store THEN AllowedAfter(k, StepStore, r)
                        ELSE allowed
          /\ raiser' = IF k \in DOMAIN r.store THEN RaiserAfter(k, StepStore, r)
                       ELSE raiser
    /\ running' = [running EXCEPT ![w] = NotRunning]
    /\ UNCHANGED <<now, cleanupDue, mw, twin, uncleaned, rolling, grants, aiEnabled, job, flows,
                   advances, appVars>>

\* The cleanup interval fires between two callbacks.
StepCleanup ==
    /\ mw \in StepModes
    /\ EventLoopFree(0)
    /\ Cleanup

StepInit ==
    /\ Started
    /\ aiEnabled = TRUE
    /\ mw \in StepModes
    /\ rolling = FALSE
    /\ menu = {}

StepNext ==
    \/ \E w \in Handlers : Enter(w)
    \/ \E w \in Handlers : Leave(w)
    \/ StepCleanup
    \/ \E t \in Instants : Advance(t)

\* One limiter, chosen initially, with each handler run in two halves.
SpecSteps == StepInit /\ [][StepNext]_vars

\* ------------------------------------------------- index.ts: the flow store
\* validateRequestSize(), default maxSteps, and the length it allows a goal.
MAX_STEPS == 50
MAX_GOAL_LENGTH == 500

Repeat(x, n) == [i \in 1..n |-> x]

\* String.prototype.trim, for texts whose only white space is the blank.
RECURSIVE TrimStart(_)
TrimStart(text) ==
    IF text # <<>> /\ Head(text) = " " THEN TrimStart(Tail(text)) ELSE text
RECURSIVE TrimEnd(_)
TrimEnd(text) ==
    IF text # <<>> /\ text[Len(text)] = " "
    THEN TrimEnd(SubSeq(text, 1, Len(text) - 1)) ELSE text
Trim(text) == TrimEnd(TrimStart(text))

\* The bodies the clients post; a missing goal is the empty text, missing steps
\* the empty list.
TextBlank == <<" ", " ">>
GoalPadded == <<" ">> \o GoalApprovePosts \o <<" ">>
GoalTooLong == Repeat("a", MAX_GOAL_LENGTH + 1)
PostedGoals == {<<>>, GoalPadded, GoalTooLong}
PostedSteps ==
    {<<>>, <<TextBlank>>, <<TextGenerates, TextBlank, TextPublished>>,
     Repeat(TextGenerates, MAX_STEPS), Repeat(TextGenerates, MAX_STEPS + 1)}
FlowBodies == [goal : PostedGoals, steps : PostedSteps]
AnalyzeBodies ==
    {[goal |-> <<>>, steps |-> <<>>],
     [goal |-> GoalTooLong, steps |-> <<>>],
     [goal |-> <<>>, steps |-> Repeat(TextGenerates, MAX_STEPS + 1)]}

\* validateRequestSize: whether next() is called for a request with this body.
validateRequestSize(body) ==
    /\ ~(Len(body.steps) > MAX_STEPS)
    /\ ~(Len(body.goal) > MAX_GOAL_LENGTH)

\* POST /flows: the steps with a text that is not blank.
cleanedSteps(steps) == SelectSeq(steps, LAMBDA text : Len(Trim(text)) > 0)

\* POST /flows.  The id of the flow stands for crypto.randomUUID().
CreateFlow(body) ==
    /\ mw = "flows"
    /\ Cardinality(DOMAIN flows) < MaxFlows
    /\ arrivals < MaxFlowRequests
    /\ arrivals' = arrivals + 1
    /\ IF body.goal = <<>> \/ body.steps = <<>> \/ cleanedSteps(body.steps) = <<>>
       THEN /\ trace' = <<Stage("create", FALSE)>>
            /\ flows' = flows
       ELSE /\ trace' = <<Stage("create", TRUE)>>
            /\ flows' = MapSet(flows, Cardinality(DOMAIN flows) + 1,
                               [goal |-> Trim(body.goal),
                                steps |-> cleanedSteps(body.steps)])
    /\ UNCHANGED <<now, rateLimitStore, costTracker, cleanupDue, mw, limiterObs,
                   aiEnabled, job, running, advances, requestLogs, currentDayStats,
                   historicalStats, totalResponseTime, hourlyDue, pending, menu,
                   logged, report>>

\* POST /flows/:id/analyze: validateRequestSize() on the request's own body, the
\* lookup of the flow, the AI gates, and performFlowAnalysis to its first await.
AnalyzeFlow(id, body, useAI) ==
    /\ mw = "flows"
    /\ job.phase = "idle"
    /\ arrivals < MaxFlowRequests
    /\ arrivals' = arrivals + 1
    /\ IF ~validateRequestSize(body)
       THEN /\ trace' = <<Stage("validate", FALSE)>>
            /\ UNCHANGED <<rateLimitStore, costTracker, job>>
       ELSE IF id \notin DOMAIN flows
       THEN /\ trace' = <<Stage("validate", TRUE), Stage("lookup", FALSE)>>
            /\ UNCHANGED <<rateLimitStore, costTracker, job>>
       ELSE IF useAI
       THEN LET g == AiGates(rateLimitStore, costTracker, TestClient, now)
            IN /\ rateLimitStore' = g.store
               /\ costTracker' = g.tracker
               /\ trace' = <<Stage("validate", TRUE), Stage("lookup", TRUE)>> \o g.stages
               /\ job' = IF g.ok THEN StartAnalysis(flows[id], useAI) ELSE job
       ELSE /\ trace' = <<Stage("validate", TRUE), Stage("lookup", TRUE)>>
            /\ job' = StartAnalysis(flows[id], useAI)
            /\ UNCHANGED <<rateLimitStore, costTracker>>
    /\ UNCHANGED <<now, cleanupDue, mw, limiterObs, aiEnabled, flows, running, advances,
                   requestLogs, currentDayStats, historicalStats, totalResponseTime,
                   hourlyDue, pending, menu, logged, report>>

FlowsInit ==
    /\ Started
    /\ aiEnabled \in BOOLEAN
    /\ mw = "flows"
    /\ rolling = FALSE
    /\ menu = {}

FlowsNext ==
    \/ \E body \in FlowBodies : CreateFlow(body)
    \/ \E id \in 1..MaxFlows, body \in AnalyzeBodies, useAI \in BOOLEAN :
           AnalyzeFlow(id, body, useAI)
    \/ \E reply \in AIReplies : AIReturns(reply)
    \/ Respond

\* Flows are created and the stored flows analysed.
SpecFlows == FlowsInit /\ [][FlowsNext]_vars

\* "EDIT it"
TextEdits ==
  <<
    "E", "D", "I", "T", " ", "i", "t"
  >>

\* "Badge"
TextBadge ==
  <<
    "B", "a", "d", "g", "e"
  >>

\* "90% sure"
TextSure ==
  <<
    "9", "0", "%", " ", "s", "u", "r", "e"
  >>

\* "Loading"
TextLoading ==
  <<
    "L", "o", "a", "d", "i", "n", "g"
  >>

\* "History"
TextHistory ==
  <<
    "H", "i", "s", "t", "o", "r", "y"
  >>

\* ------------------------------------------- index.ts: the rule engine alone
\* runRules on flows whose steps each speak the language of at most one check.
RuleTexts ==
    {TextGenerates, TextPublished, TextApproves, TextEdits, TextBadge, TextSure,
     TextLoading, TextHistory}
RuleFlows ==
    {[goal |-> GoalApprovePosts, steps |-> s] :
        s \in SeqsUpTo(RuleTexts, MaxRuleSteps) \ {<<>>}}

\* runRules(flow) returns for the flow at hand.
EvaluateRules ==
    /\ mw = "rules"
    /\ job.phase = "flow"
    /\ job' = [phase |-> "rules", flow |-> job.flow,
               ruleFindings |-> runRules(job.flow)]
    /\ UNCHANGED <<now, rateLimitStore, costTracker, cleanupDue, mw, limiterObs,
                   aiEnabled, flows, running, advances, appVars>>

RulesInit ==
    /\ Loaded
    /\ job \in {[phase |-> "flow", flow |-> flow] : flow \in RuleFlows}
    /\ aiEnabled = FALSE
    /\ mw = "rules"
    /\ rolling = FALSE
    /\ menu = {}

RulesNext == EvaluateRules

SpecRules == RulesInit /\ [][RulesNext]_vars

\* ------------------------------- index.ts: the rule engine and the step order
\* runRules on a flow and on the same flow with its steps in another order.
OrderTexts == {TextPublished, TextEdits, TextLoading}
Permuted(steps, p) == [i \in 1..Len(steps) |-> steps[p[i]]]
OrderPairs ==
    UNION {{[phase |-> "pair",
             flow |-> [goal |-> GoalApprovePosts, steps |-> s],
             permuted |-> [goal |-> GoalApprovePosts, steps |-> Permuted(s, p)]] :
               p \in Permutations(1..Len(s))} :
           s \in SeqsUpTo(OrderTexts, MaxOrderSteps) \ {<<>>}}

\* runRules returns for both flows.
EvaluateBoth ==
    /\ mw = "order"
    /\ job.phase = "pair"
    /\ job' = [phase |-> "rules", flow |-> job.flow, permuted |-> job.permuted,
               ruleFindings |-> runRules(job.flow),
               permutedFindings |-> runRules(job.permuted)]
    /\ UNCHANGED <<now, rateLimitStore, costTracker, cleanupDue, mw, limiterObs,
                   aiEnabled, flows, running, advances, appVars>>

OrderInit ==
    /\ Loaded
    /\ job \in OrderPairs
    /\ aiEnabled = FALSE
    /\ mw = "order"
    /\ rolling = FALSE
    /\ menu = {}

OrderNext == EvaluateBoth

SpecOrder == OrderInit /\ [][OrderNext]_vars

\* ------------------------------------------------------------------ claims
\* C1: with the general limiter (10 requests per 60 s), the first 10 requests
\* handled by one window of a client are allowed, the 11th is denied with a
\* retry-after between 0 and 60 seconds, a request that arrives while the window is
\* running stays in that window, and a request that arrives after the window's
\* resetTime is allowed and leaves the entry at count 1 with resetTime = now + 60 s.
C1_GeneralWindow ==
    last.op = "rateLimiter" =>
        /\ seen[last.key] <= MAX_REQUESTS_PER_MINUTE => last.ok
        /\ seen[last.key] = MAX_REQUESTS_PER_MINUTE + 1 =>
              /\ ~last.ok
              /\ last.retryAfter >= 0
              /\ last.retryAfter <= RATE_LIMIT_WINDOW \div 1000
        /\ (last.had /\ last.t < last.prevReset) => last.resetTime = last.prevReset
        /\ (last.had /\ last.prevReset < last.t) =>
              /\ last.ok
              /\ last.count = 1
              /\ last.resetTime = last.t + RATE_LIMIT_WINDOW

\* A full window (10 allowed) has elapsed and the next request opened a fresh one.
C1_Witness ==
    /\ last.op = "rateLimiter"
    /\ last.had /\ last.prevReset < last.t
    /\ last.prevCount = MAX_REQUESTS_PER_MINUTE
    /\ last.ok /\ last.count = 1

\* C2 (as stated): of the requests that reach trackCost in one daily window the
\* 100th is allowed and the 101st is denied, and every allowed request that
\* leaves the count at 80 or more is warned about.
C2_HundredthAllowed ==
    last.op = "trackCost" =>
        /\ seen[CostKey] = DAILY_AI_LIMIT => last.ok
        /\ seen[CostKey] = DAILY_AI_LIMIT + 1 => ~last.ok
        /\ (last.ok /\ last.count * 10 >= DAILY_AI_LIMIT * 8) => last.warned

\* C3: for every entry of the three limiters, the requests allowed by the entry
\* number at most the limiter's cap, and the stored count is above the cap only
\* when the request that last raised it was denied.
C3_AllowedWithinCap ==
    \A k \in DOMAIN rateLimitStore \cup DOMAIN costTracker :
        LET e == IF k = CostKey THEN costTracker[k] ELSE rateLimitStore[k]
        IN /\ allowed[k] <= Cap(k)
           /\ e.count > Cap(k) => raiser[k] = "denied"

\* The daily count has been raised above its cap.
C3_Witness ==
    /\ CostKey \in DOMAIN costTracker
    /\ costTracker[CostKey].count > DAILY_AI_LIMIT
    /\ raiser[CostKey] = "denied"

\* C4 (as stated): a request at time t that finds its key absent, or present with
\* resetTime <= t, is allowed and leaves the entry at count 1, resetTime t + window.
C4_ReplaceAtResetTime ==
    (last.op # "none" /\ (~last.had \/ last.prevReset <= last.t)) =>
        /\ last.ok
        /\ last.count = 1
        /\ last.resetTime = last.t + Window(last.key)

\* C5 (as stated): the cost governor and the general limiter, run side by side
\* with the same cap and window on the same requests, give every request the same
\* decision and hold the same count and resetTime after it.
C5_SameMachine ==
    (mw = "pair" /\ last.op # "none") =>
        /\ twin.ok = last.ok
        /\ twin.count = last.count
        /\ twin.resetTime = last.resetTime

\* C6 (as stated): in every interval as long as the window, the allowed requests
\* of one client in one traffic class number at most the cap.
C6_RollingWithinCap ==
    \A c \in Clients : \A k \in {GeneralKey(c), AiKey(c)} : RollingCount(k) <= Cap(k)

\* C6 (amended): they number at most 2 * cap - 1: the interval overlaps at most
\* two entries' windows and cannot hold the request that opened the earlier one.
C6_RollingWithinTwoWindows ==
    \A c \in Clients : \A k \in {GeneralKey(c), AiKey(c)} :
        RollingCount(k) <= 2 * Cap(k) - 1

\* 19 requests of one client were allowed within 60 s.
C6_Witness ==
    RollingCount(GeneralKey(TestClient)) = 2 * MAX_REQUESTS_PER_MINUTE - 1

\* The place of a stage in the order the spec gives.
Rank(stage) ==
    CASE stage = "general" -> 1
      [] stage = "log" -> 2
      [] stage = "validate" -> 3
      [] stage = "ai" -> 4
      [] stage = "cost" -> 5
      [] stage = "analysis" -> 6

Ran(tr, stage) == \E i \in 1..Len(tr) : tr[i].stage = stage
Passed(tr, stage) == \E i \in 1..Len(tr) : tr[i].stage = stage /\ tr[i].ok

\* The entry under `key` was created or changed between the maps m and m2.
Counted(m, m2, key) ==
    IF key \notin DOMAIN m2 THEN FALSE
    ELSE IF key \notin DOMAIN m THEN TRUE
    ELSE m2[key] # m[key]

\* An analysis was started by the step.
AnalysisStarted == \E p \in pending' \ pending : p.status = NoStatus

\* The request of the step was logged as asking for AI.
AsksAI == logged' # logged /\ requestLogs'[Len(requestLogs')].useAI

C8_EveryRequestLogged ==
    /\ logged = arrivals
    /\ \A i \in 1..Len(requestLogs) :
          requestLogs[i].id \notin {p.id : p \in pending}
             => /\ requestLogs[i].status # NoStatus
                /\ requestLogs[i].duration # NoDuration

\* What logRequest leaves of a fresh day: the one request it was called for.
FirstOfDay(d, date) ==
    /\ d.date = date
    /\ d.totalRequests = 1
    /\ d.aiRequests \in {0, 1}
    /\ Cardinality(d.uniqueIPs) = 1
    /\ Cardinality(DOMAIN d.endpoints) = 1
    /\ \A e \in DOMAIN d.endpoints : d.endpoints[e] = 1
    /\ d.errors = 0
    /\ d.avgResponseTime = ZeroMean

\* A step that runs the rollover check: a logged arrival or the hourly timer.
ChecksDate == logged' # logged \/ hourlyDue' # hourlyDue

\* C9: a step that runs the rollover check leaves today's accumulator on the
\* current date; when the date of the accumulator changes, the old accumulator
\* is the newest entry of the history exactly as it was, the older entries keep
\* their order and content (the oldest leaves when there are more than 30), and
\* the new accumulator is fresh but for the arriving request that ran the check;
\* no other step changes the history.
C9_DailyRollover ==
    [][/\ ChecksDate => currentDayStats'.date = DateOf(now)
       /\ currentDayStats'.date # currentDayStats.date =>
            /\ ChecksDate
            /\ historicalStats' =
                 (IF Len(historicalStats) < HISTORY_DAYS
                  THEN Append(historicalStats, currentDayStats)
                  ELSE Append(Tail(historicalStats), currentDayStats))
            /\ IF logged' # logged
               THEN FirstOfDay(currentDayStats', DateOf(now))
               ELSE currentDayStats' = FreshDay(DateOf(now))
            /\ totalResponseTime' = 0
       /\ currentDayStats'.date = currentDayStats.date =>
            historicalStats' = historicalStats
    ]_vars

\* A day with a request in it was archived and the next day has one of its own.
C9_Witness ==
    /\ Len(historicalStats) = 1
    /\ historicalStats[1].totalRequests > 0
    /\ currentDayStats.date = historicalStats[1].date + 1
    /\ currentDayStats.totalRequests > 0

\* C10: the current-day statistics a reporting query answered from were those
\* of the calendar date of the instant it answered.
C10_NoStaleToday ==
    report.query # "none" => report.date = report.today

\* GET /analytics/top-endpoints was answered after midnight.
C10_Witness ==
    /\ report.query = "getTopEndpoints"
    /\ report.today > DateOf(StartTime)

\* C11: the log buffer never holds more than 1000 logs and the history never
\* more than 30 days; the buffer holds the most recent logs in arrival order
\* (their identities are consecutive and end at the latest one), the history
\* holds days in increasing date order, all before today; a rollover at a
\* full history drops its oldest day and nothing else.
C11_BoundedRetention ==
    [][/\ Len(requestLogs') <= MAX_LOGS
       /\ Len(historicalStats') <= HISTORY_DAYS
       /\ \A i \in 1..Len(requestLogs') :
             requestLogs'[i].id = logged' - Len(requestLogs') + i
       /\ \A i \in 1..Len(historicalStats') :
             /\ historicalStats'[i].date < currentDayStats'.date
             /\ i > 1 => historicalStats'[i - 1].date < historicalStats'[i].date
       /\ historicalStats' # historicalStats =>
             historicalStats' =
                Append(IF Len(historicalStats) = HISTORY_DAYS
                       THEN Tail(historicalStats) ELSE historicalStats,
                       currentDayStats)
    ]_vars

\* The buffer is full and its two oldest logs have left it.
C11_Witness ==
    /\ Len(requestLogs) = MAX_LOGS
    /\ requestLogs[1].id = 3

\* The history is full and its oldest day has left it.
C11_HistoryWitness ==
    /\ Len(historicalStats) = HISTORY_DAYS
    /\ historicalStats[1].date > DateOf(StartTime)

\* The logs in the buffer that were counted in today's accumulator and whose
\* response has finished.
DoneToday ==
    {i \in 1..Len(requestLogs) :
        /\ requestLogs[i].duration # NoDuration
        /\ DateOf(requestLogs[i].timestamp) = currentDayStats.date}

RECURSIVE SumDurations(_)
SumDurations(S) ==
    IF S = {} THEN 0
    ELSE LET i == CHOOSE j \in S : TRUE
         IN requestLogs[i].duration + SumDurations(S \ {i})

\* C12 (as stated): today's avgResponseTime is the sum of the recorded
\* durations of today's requests divided by the number of those durations, and
\* zero when there is none.
C12_AverageIsMean ==
    LET avg == currentDayStats.avgResponseTime
    IN IF DoneToday = {}
       THEN avg.num = 0 /\ avg.den # 0
       ELSE /\ avg.den # 0
            /\ avg.num * Cardinality(DoneToday) = SumDurations(DoneToday) * avg.den

Range(s) == {s[i] : i \in 1..Len(s)}
Categories(s) == {f.category : f \in Range(s)}
Answered == mw = "engine" /\ job.phase = "done"
Merged == Answered /\ job.useAI /\ aiEnabled

\* C13: when AI is requested and enabled, the result of the analysis holds every
\* AI finding, no rule finding of a category some AI finding has, and every rule
\* finding of a category no AI finding has.
C13_MergePrecedence ==
    Merged =>
        /\ Range(job.aiFindings) \subseteq Range(job.findings)
        /\ \A r \in Range(job.ruleFindings) :
               IF r.category \in Categories(job.aiFindings)
               THEN r \notin Range(job.findings)
               ELSE r \in Range(job.findings)

\* An AI finding of category CONTROL displaces the rule finding of that
\* category while the rule findings of other categories stay.
C13_Witness ==
    /\ Merged
    /\ \E a \in Range(job.aiFindings), r \in Range(job.ruleFindings) :
           a.category = "CONTROL" /\ r.category = "CONTROL" /\ r \notin Range(job.findings)
    /\ \E r \in Range(job.ruleFindings) :
           r.category = "RECOVERY" /\ r \in Range(job.findings)

\* The findings the sort of an answered analysis was given: the AI findings,
\* then the rule findings that survive the merge.
Surviving ==
    SelectSeq(job.ruleFindings,
              LAMBDA r : ~Merged \/ r.category \notin Categories(job.aiFindings))
SortInput == IF Merged THEN job.aiFindings \o Surviving ELSE job.ruleFindings
Tier(f) == CASE f.severity = "HIGH" -> 0
             [] f.severity = "MEDIUM" -> 1
             [] f.severity = "LOW" -> 2
             [] OTHER -> 3
PositionIn(s, f) == CHOOSE i \in 1..Len(s) : s[i] = f

\* C14: the result of every analysis is a permutation of the findings it sorts
\* (AI findings, then surviving rule findings), with every HIGH finding before
\* every MEDIUM one and every MEDIUM before every LOW one, and with the input
\* order kept among findings of one severity.
C14_SeveritySort ==
    Answered /\ job.status = 200 =>
        /\ Len(job.findings) = Len(SortInput)
        /\ Range(job.findings) = Range(SortInput)
        /\ \A i, j \in 1..Len(job.findings) :
               i < j =>
                   LET a == job.findings[i]
                       b == job.findings[j]
                   IN /\ Tier(a) < 3 /\ Tier(b) < 3 => Tier(a) <= Tier(b)
                      /\ a.severity = b.severity =>
                             PositionIn(SortInput, a) < PositionIn(SortInput, b)

\* The findings of s, HIGH first, then MEDIUM, then LOW, each tier in the order of s.
BySeverity(s) ==
    SelectSeq(s, LAMBDA f : f.severity = "HIGH")
    \o SelectSeq(s, LAMBDA f : f.severity = "MEDIUM")
    \o SelectSeq(s, LAMBDA f : f.severity = "LOW")
AIFailed == Merged /\ job.reply.kind \in {"throws", "unparsable", "not-a-list"}

\* C15: when AI is requested and enabled and the AI source fails (the call
\* throws, the content does not parse, the reply is malformed), the analysis
\* answers 200 with exactly the rule findings sorted by severity.
C15_AIFailureAbsorbed ==
    AIFailed =>
        /\ job.status = 200
        /\ job.findings = BySeverity(job.ruleFindings)

C15_Witness ==
    /\ AIFailed
    /\ job.reply.kind = "unparsable"
    /\ job.status = 200
    /\ Len(job.findings) > 2

\* C16: when AI is not requested or no credential is configured, the analysis
\* answers with the rule findings sorted by severity and the AI source is never
\* called.
C16_RulesOnly ==
    Answered /\ (~job.useAI \/ ~aiEnabled) =>
        /\ job.findings = BySeverity(job.ruleFindings)
        /\ job.aiCalls = 0
        /\ job.reply = NoReply

\* AI requested without a credential, and AI not requested with one.
C16_Witness ==
    /\ Answered /\ job.useAI /\ ~aiEnabled
    /\ Len(job.findings) > 2 /\ job.aiCalls = 0
C16_WitnessUnasked ==
    /\ Answered /\ ~job.useAI /\ aiEnabled
    /\ Len(job.findings) > 2 /\ job.aiCalls = 0

\* C17: with no AI credential configured a request that asks for AI enhancement
\* is counted neither by the per-client AI limiter nor by the daily cost
\* governor, and neither of them is asked about it or denies it.
C17_NoCredentialSkipsGovernor ==
    [][(arrivals' # arrivals /\ ~aiEnabled) =>
        /\ ~Ran(trace', "ai")
        /\ ~Ran(trace', "cost")
        /\ \A c \in Clients : ~Counted(rateLimitStore, rateLimitStore', AiKey(c))
        /\ ~Counted(costTracker, costTracker', CostKey)
    ]_vars

\* No step of the flow holds a term of any keyword set.
NoMatch(flow) == \A i \in 1..Len(flow.steps) : ~includesAny(flow.steps[i], AllTerms)

\* The eight checks as the specification lists them.
CheckSeverity ==
    <<"HIGH", "HIGH", "MEDIUM", "MEDIUM", "MEDIUM", "MEDIUM", "LOW", "LOW">>
CheckCategory ==
    <<"RECOVERY", "CONTROL", "TRANSPARENCY", "TRANSPARENCY", "MEMORY", "CONTROL",
      "TRUST", "TRUST">>
AsDocumented(f) ==
    /\ f.severity = CheckSeverity[f.id[2]]
    /\ f.category = CheckCategory[f.id[2]]
    /\ f.confidence \in 70..95
Fired(findings) == {f.id[2] : f \in Range(findings)}
InCheckOrder(findings) ==
    \A i, j \in 1..Len(findings) : i < j => findings[i].id[2] < findings[j].id[2]

\* C18 as stated: for every flow none of whose steps matches a keyword, the rule
\* evaluator returns 8 findings, one per check, each with its documented
\* severity, category and confidence.
C18_AllEightFire ==
    Answered /\ NoMatch(job.flow) =>
        /\ Len(job.ruleFindings) = 8
        /\ Fired(job.ruleFindings) = 1..8
        /\ \A f \in Range(job.ruleFindings) : AsDocumented(f)

\* C18 as amended: for every flow none of whose steps matches a keyword, the
\* rule evaluator returns one finding for check 1, one for check 3, one for
\* check 4 when the flow has more than 3 steps and one for check 5 when it has
\* more than 2 steps, in this order and with the documented severity, category
\* and confidence; checks 2, 6, 7 and 8 do not fire.
C18_NoMatchFindings ==
    Answered /\ NoMatch(job.flow) =>
        /\ Fired(job.ruleFindings) =
               {1, 3} \cup (IF Len(job.flow.steps) > 3 THEN {4} ELSE {})
                      \cup (IF Len(job.flow.steps) > 2 THEN {5} ELSE {})
        /\ Len(job.ruleFindings) = Cardinality(Fired(job.ruleFindings))
        /\ InCheckOrder(job.ruleFindings)
        /\ \A f \in Range(job.ruleFindings) : AsDocumented(f)

\* A flow of four steps without any keyword gets the findings of checks 1, 3, 4, 5.
C18_Witness ==
    /\ Answered
    /\ NoMatch(job.flow)
    /\ Len(job.flow.steps) = 4
    /\ Fired(job.ruleFindings) = {1, 3, 4, 5}

\* The flow of the README's example as the specification's scenario gives it.
ScenarioFlow == [goal |-> GoalApprovePosts, steps |-> <<TextGenerates, TextPublished>>]
Scenario == Answered /\ job.flow = ScenarioFlow /\ ~job.useAI
MentionedIn(evidence, phrase) ==
    \E i \in 1..Len(evidence) : Includes(evidence[i], phrase)

\* C19: for the flow with goal "approve posts" and steps "AI generates content",
\* "Post is automatically published", analysed with rules only, the result holds
\* a HIGH/CONTROL finding of the missing approval with confidence 0.95 whose
\* evidence contains "automatically published", and the overall risk is HIGH.
C19_EndToEnd ==
    Scenario =>
        /\ job.status = 200
        /\ job.overallRisk = "HIGH"
        /\ \E f \in Range(job.findings) :
               /\ f.severity = "HIGH"
               /\ f.category = "CONTROL"
               /\ f.principleId = "principle_human_in_loop"
               /\ f.confidence = 95
               /\ MentionedIn(f.evidence, AutomaticallyPublished)

Severities(findings) == {f.severity : f \in Range(findings)}

\* C21: in every analysis result overallRisk is HIGH when some finding is HIGH,
\* else MEDIUM when some finding is MEDIUM, else LOW (also without findings);
\* highlights are the titles of the first min(3, n) findings of the result; and
\* overallRisk is the severity of the first finding when there is one.
C21_RiskAndHighlights ==
    Answered /\ job.status = 200 =>
        /\ job.overallRisk =
               (IF "HIGH" \in Severities(job.findings) THEN "HIGH"
                ELSE IF "MEDIUM" \in Severities(job.findings) THEN "MEDIUM"
                ELSE "LOW")
        /\ Len(job.highlights) = (IF Len(job.findings) < 3 THEN Len(job.findings) ELSE 3)
        /\ \A i \in 1..Len(job.highlights) : job.highlights[i] = job.findings[i].title
        /\ job.findings # <<>> => job.overallRisk = job.findings[1].severity

\* s is the number of seconds that ms milliseconds round up to.
RoundsUpTo(ms, s) == s * 1000 >= ms /\ (s - 1) * 1000 < ms

\* C22: every denial by the general limiter, the AI limiter or the cost governor
\* carries a retry-after in seconds equal to the time that remains until the
\* resetTime of the entry that denied, rounded up.
C22_DenialCarriesRetryAfter ==
    (last.op # "none" /\ ~last.ok) =>
        /\ last.retryAfter # NoRetry
        /\ RoundsUpTo(last.prevReset - last.t, last.retryAfter)

\* The flow the rule evaluator and the merge engine were given.
Analysing == mw = "flows" /\ job.phase \in {"ai", "done"}

\* C23: no flow with more than 50 steps or with a goal longer than 500
\* characters is ever passed to the rule evaluator or the merge engine, whatever
\* requests created it and asked for its analysis.
C23_OversizedNeverAnalysed ==
    Analysing =>
        /\ Len(job.flow.steps) <= MAX_STEPS
        /\ Len(job.flow.goal) <= MAX_GOAL_LENGTH

PartWay == {w \in Handlers : running[w].pc # "idle"}

\* C24: the read, the check and the increment of a limiter handler act as one
\* step: whatever the order in which requests for one key and the cleanup
\* timer are served, a handler ends with the store and the answer that the
\* whole handler gives on the store it ends on, no second handler has read the
\* entry meanwhile, and an entry never allows more requests than its cap.
C24_ReadCheckIncrementAtomic ==
    [][\A w \in Handlers :
          (running[w].pc = "decided" /\ running'[w].pc = "idle") =>
              LET r == Whole(StepStore, running[w].t)
              IN /\ StepStore' = r.store
                 /\ last'.ok = r.ok
                 /\ last'.retryAfter = r.retryAfter
                 /\ PartWay = {w}
                 /\ allowed'[StepKey] <= Cap(StepKey)
    ]_vars

\* A handler has found the count one below the cap and has not yet raised it.
C24_Witness ==
    /\ mw \in StepModes
    /\ \E w \in Handlers :
          /\ running[w].pc = "decided"
          /\ running[w].decision = "count"
          /\ StepStore[StepKey].count = Cap(StepKey) - 1

\* C25: once the AI source has been invoked for an analysis, the analysis
\* eventually has its response, whether the source returns findings, fails or
\* never answers.
C25_AnalysisNeverHangs ==
    (mw = "engine" /\ job.phase = "ai") ~> (job.phase = "done")

\* A step in which GET /analytics was logged and answered with a snapshot.
Snapshots ==
    /\ logged' # logged
    /\ requestLogs'[Len(requestLogs')].endpoint = "/analytics"
    /\ report'.query = "getAnalytics"

\* C26: the snapshot's recent list holds min(50, n) of the n logs in the
\* buffer, each arrived later than every log of the buffer it leaves out,
\* newest first; and the buffer after the snapshot is the buffer the logging
\* middleware left.
C26_RecentLogs ==
    [][Snapshots =>
          LET buffer == logRequest(Analytics, logged + 1,
                                   requestLogs'[Len(requestLogs')].ip,
                                   "/analytics", FALSE, now).logs
              list == report'.recent
              n == Len(buffer)
          IN /\ requestLogs' = buffer
             /\ Len(list) = IF n < RECENT_LOGS THEN n ELSE RECENT_LOGS
             /\ Range(list) \subseteq Range(buffer)
             /\ \A i \in 1..Len(list) - 1 : list[i].id > list[i + 1].id
             /\ \A x \in Range(buffer) \ Range(list) :
                   \A y \in Range(list) : x.id < y.id
    ]_vars

\* A snapshot was taken of a buffer of more than 50 logs.
C26_Witness ==
    /\ report.query = "getAnalytics"
    /\ Len(report.recent) = RECENT_LOGS
    /\ Len(requestLogs) > RECENT_LOGS
    /\ report.recent[1].id = logged

\* C27: a request that was denied left its entry as it found it, count and
\* resetTime alike, whichever of the three limiters denied it.
C27_DenialLeavesEntry ==
    (last.op # "none" /\ ~last.ok) =>
        /\ last.had
        /\ last.count = last.prevCount
        /\ last.resetTime = last.prevReset

\* The cleanup timer fired.
CleanupFires == cleanupDue' # cleanupDue

\* C28: the cleanup callback removes only entries that a request at that
\* instant would replace by a new window and leaves the others as they were;
\* and every request of the client limiters has the decision, the retry-after
\* and the entry it would have had on a store that is never cleaned.
C28_CleanupTransparent ==
    [][/\ CleanupFires =>
             \A k \in DOMAIN rateLimitStore :
                IF k \in DOMAIN rateLimitStore'
                THEN rateLimitStore'[k] = rateLimitStore[k]
                ELSE /\ rateLimitStore[k].resetTime < now
                     /\ NewWindow(rateLimitStore, k, now)
       /\ (mw \in {"rateLimiter", "aiRateLimiter"} /\ last' # last) =>
             /\ uncleaned'.ok = last'.ok
             /\ uncleaned'.retryAfter = last'.retryAfter
             /\ uncleaned'.store[last'.key] = rateLimitStore'[last'.key]
    ]_vars

\* A request found no entry where the store that is never cleaned still held
\* the expired one.
C28_Witness ==
    /\ mw \in {"rateLimiter", "aiRateLimiter"}
    /\ last.op # "none"
    /\ ~last.had
    /\ uncleaned.had

\* A request was denied in a window during which the timer had fired.
C28_WitnessDenied ==
    /\ mw \in {"rateLimiter", "aiRateLimiter"}
    /\ last.op # "none"
    /\ ~last.ok
    /\ cleanupDue > StartTime + CLEANUP_INTERVAL
    /\ last.resetTime - Window(last.key) < cleanupDue - CLEANUP_INTERVAL

\* The rule engine has returned for a flow.
Evaluated == mw = "rules" /\ job.phase = "rules"

\* Some step of the flow contains, in whatever case, one of the terms.
Mentions(flow, terms) ==
    \E i \in 1..Len(flow.steps), term \in terms :
        Includes(toLowerCase(flow.steps[i]), term)

\* The keyword set of each check that is gated by autonomy.
OwnTerms(n) ==
    IF n = 2 THEN ApprovalTerms
    ELSE IF n = 6 THEN UndoTerms
    ELSE IF n = 7 THEN TrustTerms
    ELSE ConfidenceTerms

\* C29: checks 2, 6, 7 and 8 fire only for a flow with autonomous-action
\* language; each of them fires exactly when the flow has that language and no
\* step matches the check's own keywords; and the CONTROL and TRUST findings of
\* the rule engine are exactly the findings of these four checks.
C29_AutonomyGating ==
    Evaluated =>
        LET fired == Fired(job.ruleFindings)
            autonomous == Mentions(job.flow, AutoActTerms)
        IN /\ fired \cap {2, 6, 7, 8} # {} => autonomous
           /\ \A n \in {2, 6, 7, 8} :
                 n \in fired <=> (autonomous /\ ~Mentions(job.flow, OwnTerms(n)))
           /\ {f.id[2] : f \in {g \in Range(job.ruleFindings) :
                                   g.category \in {"CONTROL", "TRUST"}}}
                 = fired \cap {2, 6, 7, 8}

\* A flow that acts on its own and speaks of approval, trust and confidence
\* but not of undoing: of the four checks only check 6 fires.
C29_Witness ==
    /\ Evaluated
    /\ Mentions(job.flow, AutoActTerms)
    /\ Fired(job.ruleFindings) \cap {2, 6, 7, 8} = {6}

\* A flow without autonomous-action language and without any of the four
\* keyword sets: none of the four checks fires.
C29_WitnessNotAutonomous ==
    /\ Evaluated
    /\ ~Mentions(job.flow, AutoActTerms)
    /\ \A n \in {2, 6, 7, 8} : ~Mentions(job.flow, OwnTerms(n))
    /\ Fired(job.ruleFindings) \cap {2, 6, 7, 8} = {}

\* C30: the missing-progress check fires exactly when the flow has more than
\* 3 steps and no step has progress language, the missing-memory check exactly
\* when the flow has more than 2 steps and no step has memory language.
C30_StepCountThresholds ==
    Evaluated =>
        /\ 4 \in Fired(job.ruleFindings) <=>
              (Len(job.flow.steps) > 3 /\ ~Mentions(job.flow, ProgressTerms))
        /\ 5 \in Fired(job.ruleFindings) <=>
              (Len(job.flow.steps) > 2 /\ ~Mentions(job.flow, MemoryTerms))

\* A flow of exactly 3 steps without progress or memory language: check 5
\* fires, check 4 does not.
C30_Witness ==
    /\ Evaluated
    /\ Len(job.flow.steps) = 3
    /\ ~Mentions(job.flow, ProgressTerms)
    /\ ~Mentions(job.flow, MemoryTerms)
    /\ Fired(job.ruleFindings) \cap {4, 5} = {5}

\* A flow of 4 steps without progress language, with memory language: check 4
\* fires, check 5 does not.
C30_WitnessFour ==
    /\ Evaluated
    /\ Len(job.flow.steps) = 4
    /\ Mentions(job.flow, MemoryTerms)
    /\ Fired(job.ruleFindings) \cap {4, 5} = {4}

\* A flow of exactly 2 steps without memory language: neither check fires.
C30_WitnessTwo ==
    /\ Evaluated
    /\ Len(job.flow.steps) = 2
    /\ ~Mentions(job.flow, MemoryTerms)
    /\ Fired(job.ruleFindings) \cap {4, 5} = {}

\* What the claim compares of a finding.
Verdict(f) ==
    [severity |-> f.severity, category |-> f.category, title |-> f.title,
     confidence |-> f.confidence]
Verdicts(findings) == [i \in 1..Len(findings) |-> Verdict(findings[i])]

\* The rule engine has returned for a flow and for a reordering of it.
Reordered == mw = "order" /\ job.phase = "rules"

\* C31: the rule engine returns for a flow and for the same steps in any other
\* order the same sequence of (severity, category, title, confidence).
C31_StepOrderIrrelevant ==
    Reordered => Verdicts(job.permutedFindings) = Verdicts(job.ruleFindings)

\* Four steps, the only autonomous one moved from the last place to the first,
\* and findings returned.
C31_Witness ==
    /\ Reordered
    /\ Len(job.flow.steps) = 4
    /\ job.flow.steps[4] = TextPublished
    /\ job.permuted.steps[1] = TextPublished
    /\ \A i \in 1..3 : job.flow.steps[i] # TextPublished
    /\ Len(job.ruleFindings) > 3

\* The response of request p finished in this step.
Finishes(p) == p \in pending /\ p.id \notin {q.id : q \in pending'}

\* C32: when a response finishes, the log created by its own request's arrival
\* (the one of its identity and arrival time) had no status and no duration
\* yet and gets the response's status and duration; every other log of the
\* buffer stays as it was.
C32_BackfillMatches ==
    [][\A p \in pending :
          Finishes(p) =>
             /\ Len(requestLogs') = Len(requestLogs)
             /\ Cardinality({i \in 1..Len(requestLogs) : requestLogs[i].id = p.id}) <= 1
             /\ \A i \in 1..Len(requestLogs) :
                   IF requestLogs[i].id = p.id
                   THEN /\ requestLogs[i].timestamp = p.start
                        /\ requestLogs[i].status = NoStatus
                        /\ requestLogs[i].duration = NoDuration
                        /\ requestLogs'[i] =
                              [requestLogs[i] EXCEPT !.status = p.status,
                                                     !.duration = now - p.start]
                   ELSE requestLogs'[i] = requestLogs[i]
    ]_vars

\* Three requests arrived, the second one's response finished first and the
\* first one's after it; the third is still in flight.
C32_Witness ==
    /\ mw = "inflight"
    /\ Len(requestLogs) = 3
    /\ requestLogs[1].status = 404
    /\ requestLogs[2].status = 200
    /\ requestLogs[1].timestamp + requestLogs[1].duration
          > requestLogs[2].timestamp + requestLogs[2].duration
    /\ requestLogs[3].status = NoStatus
    /\ \E p \in pending : p.id = 3

SeverityEnum == {"HIGH", "MEDIUM", "LOW"}
CategoryEnum == {"TRUST", "CONTROL", "TRANSPARENCY", "RECOVERY", "MEMORY"}

\* C33: every finding of an analysis result has a severity of HIGH, MEDIUM or
\* LOW, one of the five categories and a confidence between 0 and 1; and a
\* finding the AI source gave without severity has MEDIUM, one without
\* category TRANSPARENCY, one without confidence 0.7.
C33_FindingsWellFormed ==
    Answered /\ job.status = 200 =>
        \A f \in Range(job.findings) :
            /\ f.severity \in SeverityEnum
            /\ f.category \in CategoryEnum
            /\ f.confidence \in 0..100
            /\ f.id[1] = "ai" =>
                  LET raw == job.reply.findings[f.id[2]]
                  IN /\ "severity" \notin DOMAIN raw => f.severity = "MEDIUM"
                     /\ "category" \notin DOMAIN raw => f.category = "TRANSPARENCY"
                     /\ "confidence" \notin DOMAIN raw => f.confidence = 70

\* A limiter handled a request in this step.
Handled == seen' # seen

\* The entry of client A in traffic class X, and the class a limiter serves.
EntryOf(client, class) == <<client, class>>
ClassOf(op) == IF op = "rateLimiter" THEN "general" ELSE "ai"

\* The entry of `key` is the same, or as absent, in both maps.
SameEntry(m, n, key) ==
    /\ key \in DOMAIN m <=> key \in DOMAIN n
    /\ key \in DOMAIN m => m[key] = n[key]

\* The map with no entry but that of `key`.
Only(m, key) == [k \in DOMAIN m \cap {key} |-> m[k]]

\* C34: a request of client A that a client limiter of class X handles changes
\* in the shared store at most the entry of (A, X), leaves the cost entry as it
\* was, and has the outcome it would have if the store held no other entry;
\* a request the cost governor counts leaves the store of the client limiters
\* as it was.
C34_EntriesIndependent ==
    [][Handled =>
          IF last'.op = "trackCost"
          THEN rateLimitStore' = rateLimitStore
          ELSE LET own == EntryOf(last'.key[1], ClassOf(last'.op))
                   alone == Limiter(Only(rateLimitStore, own), own, now,
                                    Cap(own), Window(own))
               IN /\ \A c \in Clients, class \in {"general", "ai"} :
                        EntryOf(c, class) # own =>
                           SameEntry(rateLimitStore, rateLimitStore', EntryOf(c, class))
                  /\ DOMAIN rateLimitStore' \subseteq
                        {EntryOf(c, class) : c \in Clients, class \in {"general", "ai"}}
                  /\ costTracker' = costTracker
                  /\ last'.ok = alone.ok
                  /\ last'.retryAfter = alone.retryAfter
                  /\ SameEntry(rateLimitStore', alone.store, own)
    ]_vars

\* The first client was denied by the general limiter while its AI entry, the
\* second client's two entries and the cost entry were there.
C34_Witness ==
    /\ mw = "clients"
    /\ last.op = "rateLimiter"
    /\ ~last.ok
    /\ DOMAIN rateLimitStore =
          {EntryOf(c, class) : c \in Clients, class \in {"general", "ai"}}
    /\ rateLimitStore[EntryOf(TestClient, "ai")].count = 3
    /\ CostKey \in DOMAIN costTracker

\* C35: of today's accumulator, aiRequests is at most totalRequests, the hit
\* counts of the endpoints add up to totalRequests, and the distinct clients
\* are at most totalRequests and none only when totalRequests is 0.
C35_CountersConsistent ==
    LET day == currentDayStats
    IN /\ day.aiRequests <= day.totalRequests
       /\ SumOver(day.endpoints, DOMAIN day.endpoints) = day.totalRequests
       /\ Cardinality(day.uniqueIPs) <= day.totalRequests
       /\ Cardinality(day.uniqueIPs) = 0 <=> day.totalRequests = 0

\* After a rollover that archived a day with a request, a request of the new
\* day has been counted.
C35_Witness ==
    /\ mw = "app"
    /\ Len(historicalStats) = 1
    /\ historicalStats[1].totalRequests = 1
    /\ currentDayStats.totalRequests = 1
    /\ Cardinality(currentDayStats.uniqueIPs) = 1

\* Two clients, each with an AI request today.
C35_WitnessTwoClients ==
    /\ mw = "app"
    /\ currentDayStats.totalRequests = 2
    /\ currentDayStats.aiRequests = 2
    /\ Cardinality(currentDayStats.uniqueIPs) = 2

\* C36: today's error count is at most today's totalRequests, also when a
\* rollover happened while responses were still in flight.
C36_ErrorsWithinRequests ==
    currentDayStats.errors <= currentDayStats.totalRequests

\* C37: a snapshot's totalRequestsAllTime is the number of logRequest calls so
\* far and its totalAIRequestsAllTime the number of those with the AI flag
\* (counted in the buffer while it still holds every log), and neither is less
\* than in the snapshot before.
C37_AllTimeTotals ==
    [][Snapshots =>
          /\ report'.totalRequestsAllTime = logged'
          /\ logged' = Len(requestLogs') =>
                report'.totalAIRequestsAllTime =
                   Cardinality({i \in 1..Len(requestLogs') : requestLogs'[i].useAI})
          /\ report.query = "getAnalytics" =>
                /\ report'.totalRequestsAllTime >= report.totalRequestsAllTime
                /\ report'.totalAIRequestsAllTime >= report.totalAIRequestsAllTime
    ]_vars
\* The cost governor denied the request of this step.
CostDenied ==
    /\ mw = "gates"
    /\ arrivals' # arrivals
    /\ trace'[Len(trace')] = Stage("cost", FALSE)

\* The client's AI count in its running window, 0 when no window is running.
AiCountBefore ==
    LET k == AiKey(TestClient)
    IN IF k \in DOMAIN rateLimitStore /\ ~(now > rateLimitStore[k].resetTime)
       THEN rateLimitStore[k].count
       ELSE 0

\* C38: a request denied by the cost governor has already been counted by the
\* client's AI rate limiter and stays counted: after the denial the client's
\* AI count is one higher than before the request, or 1 in a fresh window.
C38_QuotaDenialConsumesBudget ==
    [][CostDenied =>
         /\ AiKey(TestClient) \in DOMAIN rateLimitStore'
         /\ rateLimitStore'[AiKey(TestClient)].count = AiCountBefore + 1]_vars

\* A quota denial that took the last AI request of the client's hour.
C38_Witness ==
    /\ mw = "gates"
    /\ trace = <<Stage("ai", TRUE), Stage("cost", FALSE)>>
    /\ rateLimitStore[AiKey(TestClient)].count = MAX_AI_REQUESTS_PER_HOUR

\* A quota denial that opened a fresh AI window.
C38_WitnessFreshWindow ==
    /\ mw = "gates"
    /\ trace = <<Stage("ai", TRUE), Stage("cost", FALSE)>>
    /\ rateLimitStore[AiKey(TestClient)].count = 1
\* The statuses a request can be answered with, and the exchanges that fit
\* the outcomes: at most one response, a denial without an analysis, an
\* analysis result only of an analysis that was begun.
OutcomeStatuses == {429, 400, 404, 500, 200}

OneOutcome(p) ==
    /\ Len(p.sent) <= 1
    /\ \A i \in 1..Len(p.sent) : p.sent[i] \in OutcomeStatuses
    /\ 429 \in Range(p.sent) => ~p.analysed
    /\ 200 \in Range(p.sent) => p.analysed

\* The request in progress has no response yet; it has exactly one.
Unanswered == mw = "outcome" /\ \E p \in pending : Len(p.sent) = 0
Responded == \E p \in pending : Len(p.sent) = 1

\* No request has two responses, and none is both denied and analysed.
AtMostOneOutcome == mw = "outcome" => \A p \in pending : OneOutcome(p)

\* The request received in this step was answered at once, or its handler
\* awaits something.
AnsweredOrAwaiting ==
    arrivals' # arrivals =>
       \E p \in pending' :
          /\ p.id = arrivals'
          /\ Len(p.sent) + (IF p.wait = "none" THEN 0 ELSE 1) = 1

\* C39: every inbound request ends with exactly one response, a denial (429),
\* a validation or not-found error, a failure (500) or an analysis result; no
\* request gets two responses and none is both denied and analysed.
C39_ExactlyOneOutcome ==
    /\ []AtMostOneOutcome
    /\ [][AnsweredOrAwaiting]_vars
    /\ (Unanswered ~> Responded)

====
